---------------------------- MODULE Spec2Model ----------------------------
(***************************************************************************)
(* A model of AdbWatcher's core: the device session (ADBHandler), the      *)
(* log-line pipeline (ADBWatcher._process_logcat_entry with                *)
(* parse_video_path and send_http_notification) and the monitoring         *)
(* lifecycle with its watchdog (ADBWatcher.start_service, stop_service,    *)
(* restart_service, _run_device_watchdog).                                 *)
(*                                                                         *)
(* Python's None is the string "None".  A text is a sequence of one-       *)
(* character strings.  The keep-alive handle is "None", "running" or       *)
(* "exited" (a handle whose poll() is not None); a log-stream handle or a  *)
(* thread reference is an index into the table of those created, 0 for     *)
(* None.                                                                   *)
(***************************************************************************)
EXTENDS Integers, Sequences, FiniteSets, TLC

VARIABLES
    now,                \* time.time(), in seconds
    config,             \* the configuration singleton (get_config())
    \* ADBHandler
    adb_handler,        \* the ADBHandler instance (its fields)
    conn_call,          \* the last ADBHandler call: its exit, result, backoff before
    fail_streak,        \* failed connection attempts since the last success
    conn_fail_streak,   \* those of them that reached `adb connect`
    \* ADBWatcher, the log pipeline
    log_buffer,         \* queue.Queue(maxsize=1000) of raw lines
    filtered_logs,      \* the detected events
    last_processed_event,
    last_event_time,
    entry_call,         \* what the last _process_logcat_entry did
    raw_history,        \* every line read so far
    det_history,        \* every event stored so far: path, time, duplicate
    get_call,           \* the last get_raw_logs / get_event_logs: count, result
    \* ADBWatcher, the monitoring lifecycle
    watcher,            \* the lifecycle fields of the ADBWatcher instance
    procs,              \* the log-stream subprocesses spawned: "running", "exited"
    readers,            \* the reader threads started
    dogs,               \* the watchdog threads started, each with its local state
    svc_call,           \* the last control operation: what it found and did
    wd_call,            \* the last pass of a watchdog loop: what it saw and did
    \* ADBHandler, the class
    registry,           \* _instances, _lock and the get_instance calls under way
    \* backend/core/utils.py
    path_call,          \* the last extract_path_from_dat call: arguments, result
    \* ADBWatcher, stop_service() and the reader threads step by step
    stopping,           \* where stop_service() and each reader thread stand
    \* ADBWatcher, the watchdog threads
    stopped_loops       \* the loops that were running when the flag was cleared

connVars == <<adb_handler, conn_call, fail_streak, conn_fail_streak>>
logVars == <<log_buffer, filtered_logs, last_processed_event, last_event_time,
             entry_call, raw_history, det_history, get_call>>
svcVars == <<watcher, procs, readers, dogs, svc_call, wd_call>>
vars == <<now, config, connVars, logVars, svcVars, registry, path_call,
          stopping, stopped_loops>>

(***************************************************************************)
(* Bounds of the model.                                                    *)
(***************************************************************************)
MaxTime == 34           \* the session's clock runs for this many seconds
MaxStreak == 6          \* the streak counters saturate here
MaxLogTime == 4         \* the pipeline's clock runs for this many seconds
MaxLines == 3           \* lines read in one behaviour
LogBufferMaxsize == 2   \* stands for queue.Queue(maxsize=1000)
FilteredLogsMax == 2    \* stands for the 100 of _store_detected_event
MaxProcs == 2           \* log-stream subprocesses spawned in one behaviour
MaxDogs == 1            \* watchdog threads started in one behaviour
MaxCount == 3           \* the largest count asked of the log getters
MaxRules == 2           \* mapping rules in one configuration
MaxThreads == 3         \* threads calling ADBHandler.get_instance
MaxCalls == 4           \* get_instance calls begun in one behaviour
MaxLoops == 2           \* watchdog threads started, where two may run
MaxSvcTime == 62        \* the service's clock runs for this many seconds

Min(a, b) == IF a <= b THEN a ELSE b

RECURSIVE Pow2(_)
Pow2(n) == IF n = 0 THEN 1 ELSE 2 * Pow2(n - 1)

(***************************************************************************)
(* ADBHandler (backend/services/adbhandler.py)                             *)
(***************************************************************************)
BackoffBase == 1        \* self.connection_backoff = 1
BackoffCap == 30        \* min(self.connection_backoff * 2, 30)
RecheckAfter == 30      \* is_device_connected: "Check every 30 seconds"

\* time.time() is seconds since 1970: the first call of a new handler, whose
\* last_connection_attempt is 0, is never inside the backoff window.
Epoch == RecheckAfter + 1

\* The outcomes of `adb shell echo check`: returncode 0 with "check" in the
\* output, anything else, or an exception (a timeout).
ProbeOutcome == {"ok", "fail", "raise"}

\* The outcomes of `adb connect` followed by the keep-alive Popen: "connected"
\* in the output and the Popen done, no "connected" in the output,
\* subprocess.TimeoutExpired, any other exception.
ConnectOutcome == {"connected", "rejected", "timeout", "error"}

\* The outcomes of the command of execute_command.
RunOutcome == {"ok", "nonzero", "raise"}

NewHandler(ip) ==
    [device_ip |-> ip,
     connected |-> FALSE,
     last_connection_attempt |-> 0,
     connection_backoff |-> BackoffBase,
     persistent_process |-> "None",
     logcat_process |-> 0,
     is_monitoring |-> FALSE]

\* A mutant of BackoffAfterFailure: the cap is forgotten.
BackoffAfterFailureNoCap(b) == b * 2

BackoffAfterFailure(b) == Min(b * 2, BackoffCap)

\* A mutant of ConnectFailed: the failed attempt leaves the flag as it was.
ConnectFailedKeepsFlag(h) ==
    [h EXCEPT !.connection_backoff = BackoffAfterFailure(@)]

\* The three failing exits after `adb connect` (lines 156-161, 178-189).
ConnectFailed(h) ==
    [h EXCEPT !.connected = FALSE,
              !.connection_backoff = BackoffAfterFailure(@)]

\* The successful exit (lines 163-176).
ConnectSucceeded(h) ==
    [h EXCEPT !.persistent_process = "running",
              !.connected = TRUE,
              !.connection_backoff = BackoffBase]

\* What a call did besides its result: probed is the answer of the liveness
\* probe of lines 116-119 ("none" when it was not made), terminated whether
\* terminate() was called on a keep-alive subprocess (lines 129-135), spawned
\* whether a keep-alive subprocess was started (line 164), unlocked the
\* session fields written while connection_lock was not held.
Did(r, probed, terminated, spawned) ==
    [h |-> r.h, ret |-> r.ret, path |-> r.path, probed |-> probed,
     terminated |-> terminated, spawned |-> spawned, unlocked |-> {}]

\* Lines 128-189: the keep-alive subprocess is torn down, then the device
\* is connected again.
ReconnectKeepsHandle(h1, probed, conn) ==
    IF h1.device_ip = "None"
    THEN Did([h |-> [h1 EXCEPT !.connected = FALSE],
              ret |-> FALSE, path |-> "invalid_ip"],
             probed, FALSE, FALSE)
    ELSE IF conn = "connected"
    THEN Did([h |-> ConnectSucceeded(h1), ret |-> TRUE,
              path |-> "connected"], probed, FALSE, TRUE)
    ELSE Did([h |-> ConnectFailed(h1), ret |-> FALSE, path |-> conn],
             probed, FALSE, FALSE)

Reconnect(h1, probed, conn) ==
    LET h2 == [h1 EXCEPT !.persistent_process = "None"]
        terminated == h1.persistent_process # "None"
    IN
    IF h2.device_ip = "None"
    THEN Did([h |-> [h2 EXCEPT !.connected = FALSE],
              ret |-> FALSE, path |-> "invalid_ip"],
             probed, terminated, FALSE)
    ELSE IF conn = "connected"
    THEN Did([h |-> ConnectSucceeded(h2), ret |-> TRUE,
              path |-> "connected"], probed, terminated, TRUE)
    ELSE Did([h |-> ConnectFailed(h2), ret |-> FALSE, path |-> conn],
             probed, terminated, FALSE)

\* Whether the quick check of lines 113-126 is made.
Probes(h1, force) ==
    h1.connected /\ ~force /\ h1.persistent_process = "running"

\* A mutant of lines 112-189: a good answer of the quick check is ignored.
CheckIgnored(h1, force, probe, conn) ==
    Reconnect(h1, IF Probes(h1, force) THEN probe ELSE "none", conn)

\* Lines 112-189: the quick check, then the reconnection.
CheckOrReconnect(h1, force, probe, conn) ==
    IF Probes(h1, force) /\ probe = "ok"
    THEN Did([h |-> [h1 EXCEPT !.connection_backoff = BackoffBase],
              ret |-> TRUE, path |-> "probe_ok"], probe, FALSE, FALSE)
    ELSE Reconnect(h1, IF Probes(h1, force) THEN probe ELSE "none", conn)

\* A mutant of ensure_connection: the attempt time is stamped before the
\* rate limit is tested.
EnsureConnectionStampsFirst(h, t, force, probe, conn) ==
    IF ~force /\ t - h.last_connection_attempt < h.connection_backoff
    THEN Did([h |-> [h EXCEPT !.last_connection_attempt = t],
              ret |-> h.connected, path |-> "backoff"],
             "none", FALSE, FALSE)
    ELSE CheckOrReconnect([h EXCEPT !.last_connection_attempt = t],
                          force, probe, conn)

\* ensure_connection(force, timeout) at time t; probe and conn are what the
\* two adb invocations answer when they are made.  The timeout only bounds
\* those invocations.  restart_adb() (force) changes no field.  The whole
\* body runs inside `with self.connection_lock`.
ensure_connection(h, t, force, probe, conn) ==
    IF ~force /\ t - h.last_connection_attempt < h.connection_backoff
    THEN Did([h |-> h, ret |-> h.connected, path |-> "backoff"],
             "none", FALSE, FALSE)
    ELSE CheckOrReconnect([h EXCEPT !.last_connection_attempt = t],
                          force, probe, conn)

\* is_device_connected(): probe1 answers its own check, probe2 and conn the
\* ensure_connection it falls back to.  The whole body runs inside
\* `with self.connection_lock` (the lock is reentrant).
is_device_connected(h, t, probe1, probe2, conn) ==
    IF h.persistent_process = "running"
    THEN IF t - h.last_connection_attempt > RecheckAfter
         THEN CASE probe1 = "ok" ->
                     Did([h |-> [h EXCEPT !.connected = TRUE],
                          ret |-> TRUE, path |-> "own_probe_ok"],
                         "none", FALSE, FALSE)
                [] probe1 = "fail" ->
                     ensure_connection([h EXCEPT !.connected = FALSE],
                                       t, FALSE, probe2, conn)
                [] OTHER ->
                     ensure_connection(h, t, FALSE, probe2, conn)
         ELSE Did([h |-> h, ret |-> h.connected, path |-> "cached"],
                  "none", FALSE, FALSE)
    ELSE ensure_connection(h, t, FALSE, probe2, conn)

force_connect(h, t, conn) == ensure_connection(h, t, TRUE, "ok", conn)

\* execute_command(cmd): ret is whether an output is returned.  Only the
\* ensure_connection call takes the lock; the write of line 254 is made
\* after it was released.
execute_command(h, t, probe, conn, run) ==
    LET r == ensure_connection(h, t, FALSE, probe, conn) IN
    IF ~r.ret THEN [r EXCEPT !.ret = FALSE]
    ELSE CASE run = "ok" -> [r EXCEPT !.ret = TRUE]
           [] run = "nonzero" -> [r EXCEPT !.ret = FALSE]
           [] OTHER -> [r EXCEPT !.h.connected = FALSE, !.ret = FALSE,
                                 !.unlocked = {"connected"}]

(***************************************************************************)
(* Texts (backend/core/utils.py).  Positions are 1-based and 0 stands for   *)
(* Python's -1 (not found).                                                *)
(***************************************************************************)
\* "START"
T_START ==
    <<"S","T","A","R","T">>

\* "cmp="
T_cmp ==
    <<"c","m","p","=">>

\* "dat="
T_dat ==
    <<"d","a","t","=">>

\* " cmp="
T_sp_cmp ==
    <<" ","c","m","p","=">>

\* " typ="
T_typ ==
    <<" ","t","y","p","=">>

\* " flg="
T_flg ==
    <<" ","f","l","g","=">>

\* " act="
T_act ==
    <<" ","a","c","t","=">>

\* " cat="
T_cat ==
    <<" ","c","a","t","=">>

\* " pkg="
T_pkg ==
    <<" ","p","k","g","=">>

\* "content://"
T_content ==
    <<"c","o","n","t","e","n","t",":","/","/">>

\* "#"
T_hash ==
    <<"#">>

\* "externalstorage/"
T_externalstorage ==
    <<"e","x","t","e","r","n","a","l","s","t","o","r","a","g","e","/">>

\* "storage/emulated/0/"
T_emulated ==
    <<"s","t","o","r","a","g","e","/","e","m","u","l","a","t","e","d","/",
      "0","/">>

\* "/"
T_slash ==
    <<"/">>

\* "START dat=content://x/storage/emulated/0/clip.mp4 typ=video cmp=a\n": a start line whose URI names primary emulated storage
LineClip ==
    <<"S","T","A","R","T"," ","d","a","t","=","c","o","n","t","e","n","t",
      ":","/","/","x","/","s","t","o","r","a","g","e","/","e","m","u","l",
      "a","t","e","d","/","0","/","c","l","i","p",".","m","p","4"," ","t",
      "y","p","=","v","i","d","e","o"," ","c","m","p","=","a","\n">>

\* "START dat=content://x#b.mp4 cmp=a\n": a start line whose URI has the # separator
LineHash ==
    <<"S","T","A","R","T"," ","d","a","t","=","c","o","n","t","e","n","t",
      ":","/","/","x","#","b",".","m","p","4"," ","c","m","p","=","a","\n">>

\* "START dat=file:///c.mp4 cmp=a\n": a start line whose URI is no content URI
LineFile ==
    <<"S","T","A","R","T"," ","d","a","t","=","f","i","l","e",":","/","/",
      "/","c",".","m","p","4"," ","c","m","p","=","a","\n">>

\* "ping\n": a line that is no start line
LineNoise ==
    <<"p","i","n","g","\n">>

\* "clip.mp4"
PathClip ==
    <<"c","l","i","p",".","m","p","4">>

\* "b.mp4"
PathB ==
    <<"b",".","m","p","4">>

\* "storage/emulated/0/"
RuleSource ==
    <<"s","t","o","r","a","g","e","/","e","m","u","l","a","t","e","d","/",
      "0","/">>

\* "/mnt/"
RuleTarget ==
    <<"/","m","n","t","/">>

\* str.find: the first position of sub in s, 0 when there is none.
Find(s, sub) ==
    LET at == {i \in 1..(Len(s) - Len(sub) + 1) :
                  SubSeq(s, i, i + Len(sub) - 1) = sub}
    IN  IF at = {} THEN 0 ELSE CHOOSE i \in at : \A j \in at : i <= j

\* str.rfind: the last position of sub in s, 0 when there is none.
RFind(s, sub) ==
    LET at == {i \in 1..(Len(s) - Len(sub) + 1) :
                  SubSeq(s, i, i + Len(sub) - 1) = sub}
    IN  IF at = {} THEN 0 ELSE CHOOSE i \in at : \A j \in at : j <= i

\* sub in s
Contains(s, sub) == Find(s, sub) # 0

\* s[p:], for a position p
From(s, p) == SubSeq(s, p, Len(s))

\* s[:p]
Before(s, p) == SubSeq(s, 1, p - 1)

\* str.strip(chars)
Strip(s, chars) ==
    LET keep == {i \in 1..Len(s) : s[i] \notin chars}
    IN  IF keep = {} THEN <<>>
        ELSE SubSeq(s, CHOOSE i \in keep : \A j \in keep : i <= j,
                       CHOOSE i \in keep : \A j \in keep : j <= i)

Whitespace == {" ", "\n", "\t", "\r"}
SlashSpace == {"/", " "}

\* The parameters that end the URI, in the order the loop tries them.
TrailingParams == <<T_typ, T_flg, T_act, T_cat, T_pkg>>

\* The loop of lines 61-64: cut at each parameter in turn.
RECURSIVE CutAtParams(_, _)
CutAtParams(s, params) ==
    IF params = <<>> THEN s
    ELSE LET p == Find(s, Head(params))
         IN  CutAtParams(IF p # 0 THEN Before(s, p) ELSE s, Tail(params))

\* A mutant of the loop of lines 68-84: the last matching rule wins.
RECURSIVE ApplyMappingsLastWins(_, _)
ApplyMappingsLastWins(clean_dat, path_mappings) ==
    IF path_mappings = <<>> THEN "None"
    ELSE LET m == Head(path_mappings)
             later == ApplyMappingsLastWins(clean_dat, Tail(path_mappings))
         IN  IF later # "None" THEN later
             ELSE IF Contains(clean_dat, m.source)
             THEN m.target \o Strip(From(clean_dat,
                                         Find(clean_dat, m.source)
                                           + Len(m.source)), SlashSpace)
             ELSE "None"

\* The loop of lines 68-84: the first rule whose source occurs in the text.
RECURSIVE ApplyMappings(_, _)
ApplyMappings(clean_dat, path_mappings) ==
    IF path_mappings = <<>> THEN "None"
    ELSE LET m == Head(path_mappings) IN
         IF Contains(clean_dat, m.source)
         THEN m.target \o Strip(From(clean_dat, Find(clean_dat, m.source)
                                                   + Len(m.source)),
                                SlashSpace)
         ELSE ApplyMappings(clean_dat, Tail(path_mappings))

\* A mutant of the fallbacks: the "content://" test of lines 87-88 is left
\* out.
ExtractWithoutMarkerTest(clean_dat) ==
    IF Find(clean_dat, T_hash) # 0
    THEN Strip(From(clean_dat, Find(clean_dat, T_hash) + 1), SlashSpace)
    ELSE IF Find(clean_dat, T_externalstorage) # 0
    THEN Strip(From(clean_dat, Find(clean_dat, T_externalstorage)
                                  + Len(T_externalstorage)), SlashSpace)
    ELSE IF Find(clean_dat, T_emulated) # 0
    THEN Strip(From(clean_dat, Find(clean_dat, T_emulated)
                                  + Len(T_emulated)), SlashSpace)
    ELSE IF RFind(clean_dat, T_slash) # 0
    THEN Strip(From(clean_dat, RFind(clean_dat, T_slash) + 1), SlashSpace)
    ELSE "None"

\* A mutant of the fallbacks: primary emulated storage is tried before
\* external storage.
ExtractEmulatedFirst(clean_dat) ==
    IF ~Contains(clean_dat, T_content) THEN "None"
    ELSE IF Find(clean_dat, T_hash) # 0
    THEN Strip(From(clean_dat, Find(clean_dat, T_hash) + 1), SlashSpace)
    ELSE IF Find(clean_dat, T_emulated) # 0
    THEN Strip(From(clean_dat, Find(clean_dat, T_emulated)
                                  + Len(T_emulated)), SlashSpace)
    ELSE IF Find(clean_dat, T_externalstorage) # 0
    THEN Strip(From(clean_dat, Find(clean_dat, T_externalstorage)
                                  + Len(T_externalstorage)), SlashSpace)
    ELSE IF RFind(clean_dat, T_slash) # 0
    THEN Strip(From(clean_dat, RFind(clean_dat, T_slash) + 1), SlashSpace)
    ELSE "None"

\* Lines 86-120: the fallbacks when no rule matches.
ExtractWithoutMapping(clean_dat) ==
    IF ~Contains(clean_dat, T_content) THEN "None"
    ELSE IF Find(clean_dat, T_hash) # 0
    THEN Strip(From(clean_dat, Find(clean_dat, T_hash) + 1), SlashSpace)
    ELSE IF Find(clean_dat, T_externalstorage) # 0
    THEN Strip(From(clean_dat, Find(clean_dat, T_externalstorage)
                                  + Len(T_externalstorage)), SlashSpace)
    ELSE IF Find(clean_dat, T_emulated) # 0
    THEN Strip(From(clean_dat, Find(clean_dat, T_emulated)
                                  + Len(T_emulated)), SlashSpace)
    ELSE IF RFind(clean_dat, T_slash) # 0
    THEN Strip(From(clean_dat, RFind(clean_dat, T_slash) + 1), SlashSpace)
    ELSE "None"

extract_path_from_dat(dat_string, path_mappings) ==
    LET clean_dat == CutAtParams(dat_string, TrailingParams)
        mapped == ApplyMappings(clean_dat, path_mappings)
    IN  IF mapped # "None" THEN mapped ELSE ExtractWithoutMapping(clean_dat)

parse_video_path(line, path_mappings) ==
    LET dat_pos == Find(line, T_dat) IN
    IF dat_pos = 0 THEN "None"
    ELSE LET dat_part == From(line, dat_pos)
             space_after_dat == Find(dat_part, T_sp_cmp)
         IN  extract_path_from_dat(
                 IF space_after_dat # 0 THEN Before(dat_part, space_after_dat)
                 ELSE dat_part,
                 path_mappings)

\* Python's truth of a path: neither None nor the empty text.
Truthy(path) == path # "None" /\ path # <<>>

(***************************************************************************)
(* send_http_notification (backend/core/utils.py) and its call.            *)
(***************************************************************************)
\* What the POST meets: a 2xx status, another status, an exception.
HttpOutcome == {"2xx", "other", "raise"}

\* def send_http_notification(endpoint, file_path, timeout=10)
SendHttpParameters == {"endpoint", "file_path", "timeout"}

\* The keywords of the call in _process_logcat_entry (lines 378-383); the
\* endpoint and the path are passed by position.
DispatchKeywords == {"timeout", "device_ip"}

\* Python binds a call only when every keyword names a parameter; otherwise
\* the call raises TypeError before the body runs.
CallBinds(keywords, parameters) == keywords \subseteq parameters

\* The body: ret is the result, posts the requests made, body the JSON sent.
send_http_notification(endpoint, file_path, http) ==
    IF endpoint = "None"
    THEN [ret |-> FALSE, posts |-> 0, body |-> "None"]
    ELSE [ret |-> http = "2xx", posts |-> 1,
          body |-> [file_path |-> file_path]]

(***************************************************************************)
(* The log pipeline of ADBWatcher (backend/services/adbwatcher.py).        *)
(***************************************************************************)
StatusDuplicate == "Not sent (duplicate event)"
StatusNoEndpoint == "Not configured (no endpoint)"
StatusSent == "Sent successfully"
StatusFailed == "Failed to send"

\* A mutant of PutLogBuffer: a full buffer drops the new line.
PutLogBufferDropsNew(buf, line) ==
    IF Len(buf) < LogBufferMaxsize THEN Append(buf, line) ELSE buf

\* Lines 346-355: put_nowait, and on queue.Full get_nowait then put_nowait.
PutLogBuffer(buf, line) ==
    IF Len(buf) < LogBufferMaxsize THEN Append(buf, line)
    ELSE Append(Tail(buf), line)

\* A mutant of _is_duplicate_event: a suppressed event restarts the window.
SlidingDuplicateEvent(w, video_path, t, cooldown) ==
    IF /\ video_path = w.last_processed_event
       /\ t - w.last_event_time < cooldown
    THEN [w |-> [w EXCEPT !.last_event_time = t], ret |-> TRUE]
    ELSE [w |-> [w EXCEPT !.last_processed_event = video_path,
                          !.last_event_time = t],
          ret |-> FALSE]

\* A mutant of _is_duplicate_event: a new event is not remembered.
DuplicateEventForgets(w, video_path, t, cooldown) ==
    [w |-> w,
     ret |-> /\ video_path = w.last_processed_event
             /\ t - w.last_event_time < cooldown]

\* _is_duplicate_event(video_path) at time t, for a path that is truthy.
_is_duplicate_event(w, video_path, t, cooldown) ==
    IF /\ video_path = w.last_processed_event
       /\ t - w.last_event_time < cooldown
    THEN [w |-> w, ret |-> TRUE]
    ELSE [w |-> [w EXCEPT !.last_processed_event = video_path,
                          !.last_event_time = t],
          ret |-> FALSE]

\* A mutant of _store_detected_event: the list is cut after the append.
StoreThenTrim(logs, original_line, mapped_path, notification_status, t) ==
    LET all == Append(logs, [timestamp |-> t,
                             original_event |-> Strip(original_line, Whitespace),
                             mapped_path |-> mapped_path,
                             notification_status |-> notification_status])
    IN  IF Len(all) >= FilteredLogsMax THEN Tail(all) ELSE all

\* _store_detected_event; the timestamp is the clock's reading.
_store_detected_event(logs, original_line, mapped_path, notification_status, t) ==
    Append(IF Len(logs) >= FilteredLogsMax THEN Tail(logs) ELSE logs,
           [timestamp |-> t,
            original_event |-> Strip(original_line, Whitespace),
            mapped_path |-> mapped_path,
            notification_status |-> notification_status])

\* A mutant of StoredStatus: the endpoint is looked at first.
StoredStatusEndpointFirst(is_duplicate, endpoint) ==
    IF endpoint = "None" THEN StatusNoEndpoint
    ELSE IF is_duplicate THEN StatusDuplicate
    ELSE "None"

\* The status an event is stored with (line 367).
StoredStatus(is_duplicate, endpoint) ==
    IF is_duplicate THEN StatusDuplicate
    ELSE IF endpoint = "None" THEN StatusNoEndpoint
    ELSE "None"

\* What a call of _process_logcat_entry did besides changing the watcher.
NoEntry ==
    [line |-> <<>>, video_path |-> "None", is_duplicate |-> FALSE,
     stores |-> 0, stored_status |-> "None", status_writes |-> 0,
     posts |-> 0, body |-> "None", raised |-> FALSE]

\* Lines 376-386: the dispatch for an event that is no duplicate.
Dispatch(w, cfg, e, http) ==
    IF cfg.notification_endpoint = "None" THEN [w |-> w, e |-> e]
    ELSE IF ~CallBinds(DispatchKeywords, SendHttpParameters)
    THEN [w |-> w, e |-> [e EXCEPT !.raised = TRUE]]
    ELSE LET r == send_http_notification(cfg.notification_endpoint,
                                         e.video_path, http)
             n == Len(w.filtered_logs)
         IN  IF n = 0 THEN [w |-> w, e |-> [e EXCEPT !.posts = r.posts,
                                                      !.body = r.body]]
             ELSE [w |-> [w EXCEPT !.filtered_logs[n].notification_status =
                                     IF r.ret THEN StatusSent ELSE StatusFailed],
                   e |-> [e EXCEPT !.status_writes = 1, !.posts = r.posts,
                                   !.body = r.body]]

\* _process_logcat_entry(line) at time t; the line is already a str (the
\* subprocess is opened with text=True).
_process_logcat_entry(w, cfg, line, t, http) ==
    LET w1 == [w EXCEPT !.log_buffer = PutLogBuffer(@, line)]
        e0 == [NoEntry EXCEPT !.line = line]
    IN
    IF ~(Contains(line, T_START) /\ Contains(line, T_cmp))
    THEN [w |-> w1, e |-> e0]
    ELSE
      LET video_path == parse_video_path(line, cfg.path_mappings) IN
      IF ~Truthy(video_path)
      THEN [w |-> w1, e |-> [e0 EXCEPT !.video_path = video_path]]
      ELSE
        LET d == _is_duplicate_event(w1, video_path, t, cfg.event_cooldown)
            notification_status ==
                StoredStatus(d.ret, cfg.notification_endpoint)
            w2 == [d.w EXCEPT !.filtered_logs =
                       _store_detected_event(@, line, video_path,
                                             notification_status, t)]
            e1 == [e0 EXCEPT !.video_path = video_path,
                             !.is_duplicate = d.ret,
                             !.stores = 1,
                             !.stored_status = notification_status]
        IN  IF d.ret THEN [w |-> w2, e |-> e1]
            ELSE Dispatch(w2, cfg, e1, http)

(***************************************************************************)
(* The configuration (backend/core/config.py).                             *)
(***************************************************************************)
DefaultCooldown == 3    \* cooldown_seconds

Endpoints == {"None", "http://host/play"}

Mappings == {<<>>, <<[source |-> RuleSource, target |-> RuleTarget]>>}

\* The devices a configuration may name.  adb_device_id is the address with
\* the fixed port (config.py:24), and ADBHandler.__init__ takes the address
\* back out of it (adbhandler.py:62-68): one token stands for both.
ConfiguredDevices == {"ip", "ip2"}

Config(enabled, endpoint, mappings) ==
    [enable_watcher |-> enabled,
     adb_device_id |-> "ip",
     event_cooldown |-> DefaultCooldown,
     notification_endpoint |-> endpoint,
     path_mappings |-> mappings]

DefaultConfig == Config(TRUE, "None", <<>>)

\* The watcher's log fields after ADBWatcher.__init__.
NoGetCall == [op |-> "none", count |-> 0, ret |-> <<>>]

NewPipeline ==
    /\ get_call = NoGetCall
    /\ log_buffer = <<>>
    /\ filtered_logs = <<>>
    /\ last_processed_event = "None"
    /\ last_event_time = 0
    /\ entry_call = NoEntry
    /\ raw_history = <<>>
    /\ det_history = <<>>

(***************************************************************************)
(* The monitoring lifecycle of ADBWatcher                                  *)
(* (backend/services/adbwatcher.py).                                       *)
(*                                                                         *)
(* A world is the handler h, the watcher's fields w, and the tables of the *)
(* log-stream subprocesses (procs), reader threads (readers) and watchdog  *)
(* threads (dogs) created so far; a handle or a thread reference is an     *)
(* index into its table, 0 for None.  An operation is a set of outcomes,   *)
(* one for each way its subprocess calls and bounded waits can end.        *)
(***************************************************************************)
\* The watcher's lifecycle fields after ADBWatcher.__init__, before the
\* watchdog is started.
NewWatcher ==
    [device_connected |-> FALSE,
     device_watchdog_thread |-> 0,
     device_watchdog_running |-> FALSE,
     process |-> 0,
     is_running |-> FALSE,
     monitoring_failed |-> FALSE,
     log_thread |-> 0]

Alive(table, i) == i # 0 /\ table[i].alive

\* start_device_watchdog()
start_device_watchdog(s) ==
    IF Alive(s.dogs, s.w.device_watchdog_thread) THEN s
    ELSE [s EXCEPT !.dogs = Append(@, [alive |-> TRUE,
                                       last_connected_state |-> FALSE]),
                   !.w.device_watchdog_running = TRUE,
                   !.w.device_watchdog_thread = Len(s.dogs) + 1]

\* A mutant of stop_device_watchdog: the loop flag is left set.
StopDeviceWatchdogKeepsFlag(s) ==
    [s EXCEPT !.w.device_watchdog_thread = 0]

\* stop_device_watchdog(): the thread is left to exit on its next cycle.
stop_device_watchdog(s) ==
    [s EXCEPT !.w.device_watchdog_running = FALSE,
              !.w.device_watchdog_thread = 0]

\* The world after ADBWatcher.__init__ (lines 19-53).
NewWorld(ip, enabled) ==
    LET s == [h |-> NewHandler(ip), w |-> NewWatcher,
              procs |-> <<>>, readers |-> <<>>, dogs |-> <<>>]
    IN  IF enabled THEN start_device_watchdog(s) ELSE s

\* How terminate / wait / kill end (adbhandler.py lines 318-327): the
\* subprocess ends on terminate, ends on kill after the wait timed out, or
\* both calls raise and it keeps running.
TerminateOutcome == {"terminated", "killed", "failed"}

\* A mutant of stop_logcat_process: the handle is kept when terminate and
\* kill both fail.
StopLogcatKeepsOnFailure(s) ==
    IF s.h.logcat_process = 0 THEN {s}
    ELSE {IF term = "failed" THEN s
          ELSE [s EXCEPT !.procs[s.h.logcat_process] = "exited",
                         !.h.logcat_process = 0,
                         !.h.is_monitoring = FALSE] : term \in TerminateOutcome}

\* ADBHandler.stop_logcat_process()
stop_logcat_process(s) ==
    IF s.h.logcat_process = 0 THEN {s}
    ELSE {[s EXCEPT !.procs[s.h.logcat_process] =
                        IF term = "failed" THEN @ ELSE "exited",
                    !.h.logcat_process = 0,
                    !.h.is_monitoring = FALSE] : term \in TerminateOutcome}

\* How `logcat -c` and the Popen of start_logcat_process end: the subprocess
\* is started, or one of the two raises (adbhandler.py lines 281-313).
SpawnOutcome == {"spawned", "raise"}

\* ADBHandler.start_logcat_process(): ret is the new handle, 0 for None.
start_logcat_process(s, t) ==
    UNION {
      IF ~r.ret THEN {[s |-> [s EXCEPT !.h = r.h], ret |-> 0]}
      ELSE {IF spawn = "spawned"
            THEN [s |-> [s EXCEPT !.h = [r.h EXCEPT
                                           !.logcat_process = Len(s.procs) + 1,
                                           !.is_monitoring = TRUE],
                                  !.procs = Append(@, "running")],
                  ret |-> Len(s.procs) + 1]
            ELSE [s |-> [s EXCEPT !.h = [r.h EXCEPT !.is_monitoring = FALSE]],
                  ret |-> 0]
            : spawn \in SpawnOutcome}
      : r \in {ensure_connection(s.h, t, FALSE, p, c) :
                  p \in ProbeOutcome, c \in ConnectOutcome}}

\* A call made inside a control operation, and what it returned (for a
\* call that returns an object, whether it returned one).
Step(call, ret) == [call |-> call, ret |-> ret]

\* A mutant of ConnectForStart: the forced attempt is made whatever the
\* non-forced one returned.
ConnectForStartBoth(s, t) ==
    UNION {
      {[s |-> [s EXCEPT !.h = r2.h, !.w.device_connected = r2.ret],
        trace |-> <<Step("ensure_connection", r1.ret),
                    Step("ensure_connection_force", r2.ret)>>]
       : r2 \in {ensure_connection(r1.h, t, TRUE, "ok", c) :
                    c \in ConnectOutcome}}
      : r1 \in {ensure_connection(s.h, t, FALSE, p, c) :
                   p \in ProbeOutcome, c \in ConnectOutcome}}

\* Lines 82-93 of start_service: the two connection attempts.  trace lists
\* the calls made, in order.
ConnectForStart(s, t) ==
    UNION {
      IF r1.ret
      THEN {[s |-> [s EXCEPT !.h = r1.h, !.w.device_connected = TRUE],
             trace |-> <<Step("ensure_connection", TRUE)>>]}
      ELSE {[s |-> [s EXCEPT !.h = r2.h, !.w.device_connected = r2.ret],
             trace |-> <<Step("ensure_connection", FALSE),
                         Step("ensure_connection_force", r2.ret)>>]
            : r2 \in {ensure_connection(r1.h, t, TRUE, "ok", c) :
                         c \in ConnectOutcome}}
      : r1 \in {ensure_connection(s.h, t, FALSE, p, c) :
                   p \in ProbeOutcome, c \in ConnectOutcome}}

\* A mutant of StartAfterConnect: the is_running test is forgotten.
StartAfterConnectAlways(s, t) ==
    {IF r.ret = 0
     THEN [s |-> [r.s EXCEPT !.w.process = 0, !.w.monitoring_failed = TRUE],
           ret |-> FALSE,
           trace |-> <<Step("start_logcat_process", FALSE)>>]
     ELSE [s |-> [r.s EXCEPT !.w.process = r.ret,
                             !.w.is_running = TRUE,
                             !.readers = Append(@, [alive |-> TRUE]),
                             !.w.log_thread = Len(r.s.readers) + 1],
           ret |-> TRUE,
           trace |-> <<Step("start_logcat_process", TRUE)>>]
     : r \in start_logcat_process(s, t)}

\* Lines 95-112 of start_service, reached with the device connected.
StartAfterConnect(s, t) ==
    IF s.w.is_running THEN {[s |-> s, ret |-> TRUE, trace |-> <<>>]}
    ELSE {IF r.ret = 0
          THEN [s |-> [r.s EXCEPT !.w.process = 0,
                                  !.w.monitoring_failed = TRUE],
                ret |-> FALSE,
                trace |-> <<Step("start_logcat_process", FALSE)>>]
          ELSE [s |-> [r.s EXCEPT !.w.process = r.ret,
                                  !.w.is_running = TRUE,
                                  !.readers = Append(@, [alive |-> TRUE]),
                                  !.w.log_thread = Len(r.s.readers) + 1],
                ret |-> TRUE,
                trace |-> <<Step("start_logcat_process", TRUE)>>]
          : r \in start_logcat_process(s, t)}

\* A watchdog loop is running: the thread the watcher refers to is alive
\* (the test of line 76).
Watched(s) == Alive(s.dogs, s.w.device_watchdog_thread)

\* A mutant of WatchdogForStart: the watchdog is not started.
WatchdogLeftAlone(s) == s

\* Lines 76-79 of start_service.
WatchdogForStart(s) == start_device_watchdog(s)

\* start_service() with the configuration cfg, at time t.  watched tells
\* whether a watchdog loop was running when the first connection attempt of
\* the call was made ("none": the call made no attempt).
start_service(s, cfg, t) ==
    LET s0 == [s EXCEPT !.w.monitoring_failed = FALSE] IN
    IF ~cfg.enable_watcher
    THEN {[s |-> s0, ret |-> FALSE, trace |-> <<>>, watched |-> "none"]}
    ELSE
      LET s1 == WatchdogForStart(s0) IN
      UNION {
        IF ~c.s.w.device_connected
        THEN {[s |-> [c.s EXCEPT !.w.monitoring_failed = TRUE],
               ret |-> FALSE, trace |-> c.trace, watched |-> c.watched]}
        ELSE {[s |-> r.s, ret |-> r.ret, trace |-> c.trace \o r.trace,
               watched |-> c.watched]
              : r \in StartAfterConnect(c.s, t)}
        : c \in IF s1.w.device_connected
                THEN {[s |-> s1, trace |-> <<>>, watched |-> "none"]}
                ELSE {[s |-> a.s, trace |-> a.trace,
                       watched |-> IF Watched(s1) THEN "yes" ELSE "no"]
                      : a \in ConnectForStart(s1, t)}}

\* How the bounded join of the reader thread ends: the thread has left its
\* loop, or the two seconds have passed with the thread still in it.
JoinOutcome == {"joined", "timeout"}

JoinReader(s) ==
    IF ~Alive(s.readers, s.w.log_thread) THEN {s}
    ELSE {[s EXCEPT !.readers[s.w.log_thread].alive = (j = "timeout")]
          : j \in JoinOutcome}

\* A mutant of stop_service: the failure flag is cleared whether or not
\* monitoring was running.
StopServiceAlwaysClears(s, cfg) ==
    LET s0 == [s EXCEPT !.w.is_running = FALSE,
                        !.w.monitoring_failed = FALSE]
    IN  {[s |-> IF cfg.enable_watcher THEN s3 ELSE stop_device_watchdog(s3),
          ret |-> TRUE,
          watched |-> "none",
          trace |-> IF cfg.enable_watcher THEN <<>>
                    ELSE <<Step("stop_device_watchdog", TRUE)>>]
         : s3 \in {[s2 EXCEPT !.w.process = 0]
                   : s2 \in UNION {JoinReader(s1)
                                   : s1 \in stop_logcat_process(s0)}}}

\* stop_service() with the configuration cfg; it returns True on every path.
stop_service(s, cfg) ==
    LET s0 == [s EXCEPT !.w.is_running = FALSE,
                        !.w.monitoring_failed =
                            IF s.w.is_running THEN FALSE ELSE @]
    IN  {[s |-> IF cfg.enable_watcher THEN s3 ELSE stop_device_watchdog(s3),
          ret |-> TRUE,
          watched |-> "none",
          trace |-> IF cfg.enable_watcher THEN <<>>
                    ELSE <<Step("stop_device_watchdog", TRUE)>>]
         : s3 \in {[s2 EXCEPT !.w.process = 0]
                   : s2 \in UNION {JoinReader(s1)
                                   : s1 \in stop_logcat_process(s0)}}}

\* A mutant of the reconnect step: force_connect() is called whatever
\* is_device_connected() answered.
ReconnectAlwaysForces(s, t) ==
    UNION {
      {[s |-> [s EXCEPT !.h = f.h,
                        !.w.monitoring_failed = IF f.ret THEN @ ELSE TRUE],
        ok |-> f.ret,
        trace |-> <<Step("is_device_connected", c.ret),
                    Step("force_connect", f.ret)>>]
       : f \in {force_connect(c.h, t, conn) : conn \in ConnectOutcome}}
      : c \in {is_device_connected(s.h, t, p1, p2, conn) :
                  p1 \in ProbeOutcome, p2 \in ProbeOutcome,
                  conn \in ConnectOutcome}}

\* Lines 149-155 of restart_service: c is the handler's answer to
\* is_device_connected(); a world with ok = FALSE has given up.
ReconnectForRestart(s, t) ==
    UNION {
      IF c.ret THEN {[s |-> [s EXCEPT !.h = c.h], ok |-> TRUE,
                      trace |-> <<Step("is_device_connected", TRUE)>>]}
      ELSE {[s |-> [s EXCEPT !.h = f.h,
                             !.w.monitoring_failed = IF f.ret THEN @ ELSE TRUE],
             ok |-> f.ret,
             trace |-> <<Step("is_device_connected", FALSE),
                         Step("force_connect", f.ret)>>]
            : f \in {force_connect(c.h, t, conn) : conn \in ConnectOutcome}}
      : c \in {is_device_connected(s.h, t, p1, p2, conn) :
                  p1 \in ProbeOutcome, p2 \in ProbeOutcome,
                  conn \in ConnectOutcome}}

\* restart_service()
restart_service(s, cfg, t) ==
    UNION {
      UNION {
        IF ~c.ok
        THEN {[s |-> c.s, ret |-> FALSE, watched |-> "none",
               trace |-> <<Step("stop_service", TRUE)>> \o c.trace]}
        ELSE {[s |-> IF r.ret THEN r.s
                     ELSE [r.s EXCEPT !.w.monitoring_failed = TRUE],
               ret |-> r.ret,
               watched |-> r.watched,
               trace |-> <<Step("stop_service", TRUE)>> \o c.trace
                           \o <<Step("start_service", r.ret)>>]
              : r \in start_service(c.s, cfg, t)}
        : c \in ReconnectForRestart(st.s, t)}
      : st \in stop_service(s, cfg)}

\* Lines 208-219 of apply_config_changes.  self.config is the one object
\* get_config() returns (config.py:152-159), which update_config changes in
\* place (config.py:90-119): old_device_id is read from the configuration
\* line 212 compares it with.  get_instance() of line 215 is taken to create
\* the instance of the new device.
DeviceChange(s, cfg, t) ==
    LET old_device_id == cfg.adb_device_id IN
    IF old_device_id # cfg.adb_device_id
    THEN LET s1 == [s EXCEPT !.h = NewHandler(cfg.adb_device_id)] IN
         IF s1.w.is_running
         THEN {r.s : r \in restart_service(s1, cfg, t)}
         ELSE {s1}
    ELSE {s}

\* apply_config_changes() at time t.
apply_config_changes(s, cfg, t) ==
    UNION {IF ~cfg.enable_watcher THEN {r.s : r \in stop_service(s1, cfg)}
           ELSE {start_device_watchdog(s1)}
           : s1 \in DeviceChange(s, cfg, t)}

\* What a call of _handle_connection_state_change did: how many times it
\* called restart_service, the failure flag as that call found it, and what
\* the call returned.
NoRestart(s) ==
    [s |-> s, restarts |-> 0, flag_at_restart |-> FALSE, ret |-> FALSE]

\* A mutant of _handle_connection_state_change: only a stopped monitor is
\* restarted.
HandleOnlyWhenStopped(s, cfg, t, device_connected, last_connected_state) ==
    IF /\ device_connected /\ ~last_connected_state
       /\ cfg.enable_watcher /\ ~s.w.is_running
    THEN LET s1 == [s EXCEPT !.w.monitoring_failed = FALSE] IN
         {[s |-> r.s, restarts |-> 1,
           flag_at_restart |-> s1.w.monitoring_failed, ret |-> r.ret]
          : r \in restart_service(s1, cfg, t)}
    ELSE {NoRestart(s)}

\* A mutant of _handle_connection_state_change: a change in either
\* direction restarts the monitor.
HandleAnyChange(s, cfg, t, device_connected, last_connected_state) ==
    IF /\ cfg.enable_watcher
       /\ (s.w.monitoring_failed \/ ~s.w.is_running)
    THEN LET s1 == [s EXCEPT !.w.monitoring_failed = FALSE] IN
         {[s |-> r.s, restarts |-> 1,
           flag_at_restart |-> s1.w.monitoring_failed, ret |-> r.ret]
          : r \in restart_service(s1, cfg, t)}
    ELSE {NoRestart(s)}

\* _handle_connection_state_change(device_connected, last_connected_state)
_handle_connection_state_change(s, cfg, t, device_connected, last_connected_state) ==
    IF /\ device_connected /\ ~last_connected_state
       /\ cfg.enable_watcher
       /\ (s.w.monitoring_failed \/ ~s.w.is_running)
    THEN LET s1 == [s EXCEPT !.w.monitoring_failed = FALSE] IN
         {[s |-> r.s, restarts |-> 1,
           flag_at_restart |-> s1.w.monitoring_failed, ret |-> r.ret]
          : r \in restart_service(s1, cfg, t)}
    ELSE {NoRestart(s)}

\* A watchdog thread that has left its loop; its local state is gone.
DeadDog == [alive |-> FALSE, last_connected_state |-> FALSE]

LoopExit(s) ==
    [s |-> s, restarts |-> 0, flag_at_restart |-> FALSE, ret |-> FALSE,
     observed |-> "exit"]

\* Lines 268-283: the pass of an enabled watchdog, which asks the handler.
WatchdogPass(s, cfg, t, i) ==
      LET last == s.dogs[i].last_connected_state IN
      UNION {
        LET s1 == [s EXCEPT !.h = c.h, !.w.device_connected = c.ret] IN
        {[s |-> [r.s EXCEPT !.dogs[i].last_connected_state = c.ret],
          restarts |-> r.restarts,
          flag_at_restart |-> r.flag_at_restart,
          ret |-> r.ret,
          observed |-> IF c.ret = last THEN "same"
                       ELSE IF c.ret THEN "up" ELSE "down"]
         : r \in IF c.ret # last
                 THEN _handle_connection_state_change(s1, cfg, t, c.ret, last)
                 ELSE {NoRestart(s1)}}
        : c \in {is_device_connected(s.h, t, p1, p2, conn) :
                    p1 \in ProbeOutcome, p2 \in ProbeOutcome,
                    conn \in ConnectOutcome}}

\* A mutant of _run_device_watchdog: the configuration is not looked at.
WatchdogIgnoresConfig(s, cfg, t, i) ==
    IF ~s.w.device_watchdog_running
    THEN {LoopExit([s EXCEPT !.dogs[i] = DeadDog])}
    ELSE WatchdogPass(s, cfg, t, i)

\* One pass of the loop of _run_device_watchdog in the thread i: observed is
\* "exit" when the thread leaves the loop, else what the pass saw of the
\* connection ("up", "down" for a change, "same").
_run_device_watchdog(s, cfg, t, i) ==
    IF ~s.w.device_watchdog_running
    THEN {LoopExit([s EXCEPT !.dogs[i] = DeadDog])}
    ELSE IF ~cfg.enable_watcher
    THEN {LoopExit([s EXCEPT !.w.device_watchdog_running = FALSE,
                             !.dogs[i] = DeadDog])}
    ELSE WatchdogPass(s, cfg, t, i)

World ==
    [h |-> adb_handler, w |-> watcher,
     procs |-> procs, readers |-> readers, dogs |-> dogs]

InBounds(s) == Len(s.procs) <= MaxProcs /\ Len(s.dogs) <= MaxDogs

NoSvcCall ==
    [op |-> "none", ret |-> FALSE, pre_running |-> FALSE,
     spawned |-> 0, started |-> 0, trace |-> <<>>, repeated |-> FALSE,
     watchdogs |-> 0, watched |-> "none"]

NoWdCall ==
    [observed |-> "none", failed |-> FALSE, running |-> FALSE,
     flag |-> FALSE, last |-> FALSE,
     restarts |-> 0, flag_at_restart |-> FALSE, ret |-> FALSE]

(***************************************************************************)
(* The instance registry of the ADBHandler class (adbhandler.py:22-43).    *)
(* Instances are numbered in the order of their creation; 0 is "none".     *)
(***************************************************************************)
Threads == 1..MaxThreads
DeviceIds == {"d1", "d2"}
DefaultDeviceId == "d1"     \* config.adb_device_id

\* device_id or config.adb_device_id
ResolveDeviceId(device_id) ==
    IF device_id = "None" THEN DefaultDeviceId ELSE device_id

\* The class after ADBWatcher.__init__ asked for the configured device's
\* handler (adbwatcher.py:24): one instance, no call under way.
NewRegistry ==
    [instances |-> [d \in DeviceIds |-> IF d = DefaultDeviceId THEN 1 ELSE 0],
     created |-> <<DefaultDeviceId>>,
     lock |-> 0,
     pc |-> [t \in Threads |-> "idle"],
     device_id |-> [t \in Threads |-> "None"],
     last |-> [t \in Threads |-> [device_id |-> "None", instance |-> 0]],
     calls |-> 0]

\* A mutant of the lock: `with cls._lock` lets every thread in.
LockFreeAlways(lock, t) == TRUE

\* `with cls._lock` lets thread t in: the RLock is free or t holds it.
LockFree(lock, t) == lock = 0 \/ lock = t

NoPathCall == [op |-> "none", dat_string |-> <<>>, path_mappings |-> <<>>,
               ret |-> "None"]

\* No stop_service() under way, every reader thread about to test its loop
\* condition; nothing observed yet.  at[i] is the position of the reader
\* thread i: "test" (line 309), "readline" (line 312, before the call),
\* "reading" (inside readline, on the subprocess `on`), "poll" (line 315).
NoStop ==
    [pc |-> "none",
     at |-> [i \in 1..MaxProcs |-> [pc |-> "test", on |-> 0]],
     discarded |-> {},
     deref_none |-> FALSE,
     read_discarded |-> FALSE,
     line |-> "none"]

\* The service as ADBWatcher.__init__ leaves it.
NewService(ip, enabled) ==
    LET s == NewWorld(ip, enabled) IN
    /\ adb_handler = s.h
    /\ watcher = s.w
    /\ procs = s.procs
    /\ readers = s.readers
    /\ dogs = s.dogs
    /\ svc_call = NoSvcCall
    /\ wd_call = NoWdCall
    /\ registry = NewRegistry
    /\ stopping = NoStop
    /\ stopped_loops = {}

(***************************************************************************)
(* The record of a call and the streak counters.                           *)
(***************************************************************************)
ConnectFailPaths == {"rejected", "timeout", "error"}
FailPaths == ConnectFailPaths \cup {"invalid_ip"}
SuccessPaths == {"connected", "probe_ok"}

NoCall ==
    [op |-> "none", force |-> FALSE, ret |-> FALSE,
     path |-> "none", pre_backoff |-> BackoffBase, probed |-> "none",
     terminated |-> FALSE, spawned |-> FALSE, unlocked |-> {}]

Bump(n) == Min(n + 1, MaxStreak)

Recorded(op, force, r) ==
    /\ adb_handler' = r.h
    /\ conn_call' = [op |-> op, force |-> force,
                     ret |-> r.ret, path |-> r.path,
                     pre_backoff |-> adb_handler.connection_backoff,
                     probed |-> r.probed, terminated |-> r.terminated,
                     spawned |-> r.spawned, unlocked |-> r.unlocked]
    /\ fail_streak' = IF r.path \in SuccessPaths THEN 0
                      ELSE IF r.path \in FailPaths THEN Bump(fail_streak)
                      ELSE fail_streak
    /\ conn_fail_streak' = IF r.path \in SuccessPaths THEN 0
                           ELSE IF r.path \in ConnectFailPaths
                                THEN Bump(conn_fail_streak)
                           ELSE conn_fail_streak
    /\ UNCHANGED <<now, config, logVars, registry, path_call, svcVars, stopping,
                   stopped_loops>>

NoCallsYet ==
    /\ conn_call = NoCall
    /\ fail_streak = 0
    /\ conn_fail_streak = 0

(***************************************************************************)
(* The session on its own: every ADBHandler operation, the clock and the   *)
(* keep-alive subprocess dying.                                            *)
(***************************************************************************)
InitConn ==
    /\ now = Epoch
    /\ config = DefaultConfig
    /\ \E ip \in {"ip", "None"} : NewService(ip, config.enable_watcher)
    /\ NoCallsYet
    /\ NewPipeline
    /\ path_call = NoPathCall

EnsureConnection ==
    \E force \in BOOLEAN :
      \E r \in {ensure_connection(adb_handler, now, force, probe, conn) :
                   probe \in ProbeOutcome, conn \in ConnectOutcome} :
          Recorded("ensure_connection", force, r)

IsDeviceConnected ==
    \E r \in {is_device_connected(adb_handler, now, p1, p2, conn) :
                 p1 \in ProbeOutcome, p2 \in ProbeOutcome,
                 conn \in ConnectOutcome} :
        Recorded("is_device_connected", FALSE, r)

ForceConnect ==
    \E r \in {force_connect(adb_handler, now, conn) : conn \in ConnectOutcome} :
        Recorded("force_connect", TRUE, r)

ExecuteCommand ==
    \E r \in {execute_command(adb_handler, now, probe, conn, run) :
                 probe \in ProbeOutcome, conn \in ConnectOutcome,
                 run \in RunOutcome} :
        Recorded("execute_command", FALSE, r)

\* Time passes: a second, or long enough for is_device_connected to probe again.
TickSteps == {1, RecheckAfter + 1}

Tick ==
    \E d \in TickSteps :
        /\ now + d <= Epoch + MaxTime
        /\ now' = now + d
        /\ conn_call' = NoCall
        /\ UNCHANGED <<config, adb_handler, fail_streak, conn_fail_streak,
                       logVars, registry, path_call, svcVars, stopping,
                   stopped_loops>>

KeepAliveExits ==
    /\ adb_handler.persistent_process = "running"
    /\ adb_handler' = [adb_handler EXCEPT !.persistent_process = "exited"]
    /\ conn_call' = NoCall
    /\ svc_call' = NoSvcCall
    /\ wd_call' = NoWdCall
    /\ UNCHANGED <<now, config, fail_streak, conn_fail_streak,
                   logVars, registry, path_call, watcher, procs, readers, dogs, stopping,
                   stopped_loops>>

NextConn ==
    \/ EnsureConnection
    \/ IsDeviceConnected
    \/ ForceConnect
    \/ ExecuteCommand
    \/ Tick
    \/ KeepAliveExits

SpecConn == InitConn /\ [][NextConn]_vars

Lines == {LineClip, LineHash, LineFile, LineNoise}

\* The watcher's log fields as one record.
Pipeline ==
    [log_buffer |-> log_buffer,
     filtered_logs |-> filtered_logs,
     last_processed_event |-> last_processed_event,
     last_event_time |-> last_event_time]

InitLog ==
    /\ now = Epoch
    /\ config \in {Config(TRUE, e, m) : e \in Endpoints, m \in Mappings}
    /\ NewService("ip", config.enable_watcher)
    /\ NoCallsYet
    /\ NewPipeline
    /\ path_call = NoPathCall

\* The reader loop has read the line and processes it (lines 312-321).
Read(line) ==
    /\ Len(raw_history) < MaxLines
    /\ \E r \in {_process_logcat_entry(Pipeline, config, line, now, http) :
                    http \in HttpOutcome} :
        /\ log_buffer' = r.w.log_buffer
        /\ filtered_logs' = r.w.filtered_logs
        /\ last_processed_event' = r.w.last_processed_event
        /\ last_event_time' = r.w.last_event_time
        /\ entry_call' = r.e
        /\ get_call' = NoGetCall
        /\ raw_history' = Append(raw_history, line)
        /\ det_history' =
              IF r.e.stores = 0 THEN det_history
              ELSE Append(det_history,
                          [line |-> line, path |-> r.e.video_path,
                           at |-> now, dup |-> r.e.is_duplicate])

ReadLine ==
    /\ \E line \in Lines : Read(line)
    /\ UNCHANGED <<now, config, connVars, svcVars, registry, path_call, stopping,
                   stopped_loops>>

Elapse ==
    /\ now < Epoch + MaxLogTime
    /\ now' = now + 1
    /\ UNCHANGED <<config, connVars, logVars, registry, path_call, svcVars, stopping,
                   stopped_loops>>

NextLog ==
    \/ ReadLine
    \/ Elapse

SpecLog == InitLog /\ [][NextLog]_vars

(***************************************************************************)
(* What the claims about the pipeline speak of.                            *)
(***************************************************************************)
Last(h) == h[Len(h)]
Front(h) == SubSeq(h, 1, Len(h) - 1)

\* The last call stored an event (a detection).
Detected == entry_call.stores = 1 /\ det_history # <<>>

\* The detection of the last call, and the detections before it.
ThisDet == Last(det_history)
EarlierDets == Front(det_history)

\* The last of the detections h that was judged new, if any.
NewDets(h) == {i \in 1..Len(h) : ~h[i].dup}
HasNew(h) == NewDets(h) # {}
LastNew(h) == h[CHOOSE i \in NewDets(h) : \A j \in NewDets(h) : j <= i]

EndpointSet == config.notification_endpoint # "None"

\* Whether the fixed window of the code suppresses a detection of path at
\* time t, given the detections h before it.
InWindow(h, path, t) ==
    /\ HasNew(h)
    /\ LastNew(h).path = path
    /\ t - LastNew(h).at < config.event_cooldown

\* The last n elements of h (all of h when it is shorter).
LastN(h, n) == SubSeq(h, Len(h) - Min(n, Len(h)) + 1, Len(h))

(***************************************************************************)
(* C3.  If path P is detected as new at t0 and the next detection is of P  *)
(* at t0+d, then for d < event_cooldown it is marked duplicate and nothing *)
(* is dispatched, and for d >= event_cooldown it is new: the dedup state   *)
(* is updated and, with an endpoint configured, a notification is          *)
(* dispatched.                                                             *)
(***************************************************************************)
C3_AsStated ==
    (/\ Detected
     /\ EarlierDets # <<>>
     /\ ~Last(EarlierDets).dup
     /\ Last(EarlierDets).path = ThisDet.path)
    => IF ThisDet.at - Last(EarlierDets).at < config.event_cooldown
       THEN /\ ThisDet.dup
            /\ entry_call.stored_status = StatusDuplicate
            /\ entry_call.posts = 0
       ELSE /\ ~ThisDet.dup
            /\ last_processed_event = ThisDet.path
            /\ last_event_time = ThisDet.at
            /\ EndpointSet => entry_call.posts = 1

(***************************************************************************)
(* C4.  As stated (the window slides): a detection of P is suppressed      *)
(* whenever the detection right before it was of P and less than           *)
(* event_cooldown earlier, also when that one was itself suppressed.       *)
(***************************************************************************)
C4_AsStated ==
    (/\ Detected
     /\ EarlierDets # <<>>
     /\ Last(EarlierDets).path = ThisDet.path
     /\ ThisDet.at - Last(EarlierDets).at < config.event_cooldown)
    => ThisDet.dup

\* C4, amended (the window is fixed): a detection of P is suppressed exactly
\* when the most recent detection judged new was of P and less than
\* event_cooldown earlier; a suppressed detection does not restart the window,
\* so in an unbroken stream of detections of P a detection is judged new again
\* once event_cooldown has passed since the last new one.
C4_FixedWindow ==
    Detected =>
        /\ ThisDet.dup <=> InWindow(EarlierDets, ThisDet.path, ThisDet.at)
        /\ ThisDet.dup => /\ last_processed_event = LastNew(EarlierDets).path
                          /\ last_event_time = LastNew(EarlierDets).at
        /\ ~ThisDet.dup => /\ last_processed_event = ThisDet.path
                           /\ last_event_time = ThisDet.at

\* New, suppressed, new: three detections of one path, each less than the
\* cooldown after the one before.
C4_Witness ==
    /\ Detected
    /\ Len(det_history) = 3
    /\ \A i \in 1..3 : det_history[i].path = PathClip
    /\ ~det_history[1].dup /\ det_history[2].dup /\ ~det_history[3].dup
    /\ \A i \in 2..3 :
          det_history[i].at - det_history[i - 1].at < config.event_cooldown

(***************************************************************************)
(* C5.  For every event that is no duplicate, processed with an endpoint   *)
(* configured, exactly one POST is made, the event's notification_status   *)
(* is then set exactly once to the success or the failure value, and no    *)
(* exception leaves _process_logcat_entry.                                 *)
(***************************************************************************)
C5_AsStated ==
    (Detected /\ ~ThisDet.dup /\ EndpointSet)
    => /\ entry_call.posts = 1
       /\ entry_call.status_writes = 1
       /\ Last(filtered_logs).notification_status \in {StatusSent, StatusFailed}
       /\ ~entry_call.raised

(***************************************************************************)
(* C6.  With no path mappings and an endpoint, the start line with         *)
(* dat=content://.../storage/emulated/0/clip.mp4 typ=video gives the path  *)
(* "clip.mp4", one entry in filtered_logs and one POST of                  *)
(* {"file_path": "clip.mp4"}.                                              *)
(***************************************************************************)
C6_AsStated ==
    (/\ raw_history = <<LineClip>>
     /\ config.path_mappings = <<>>
     /\ EndpointSet)
    => /\ entry_call.video_path = PathClip
       /\ Len(filtered_logs) = 1
       /\ filtered_logs[1].mapped_path = PathClip
       /\ entry_call.posts = 1
       /\ entry_call.body = [file_path |-> PathClip]

C8_Bounded ==
    /\ Len(log_buffer) <= LogBufferMaxsize
    /\ Len(filtered_logs) <= FilteredLogsMax
    /\ log_buffer = LastN(raw_history, LogBufferMaxsize)
    /\ LET kept == LastN(det_history, FilteredLogsMax) IN
       /\ Len(filtered_logs) = Len(kept)
       /\ \A i \in 1..Len(kept) :
             /\ filtered_logs[i].mapped_path = kept[i].path
             /\ filtered_logs[i].timestamp = kept[i].at
             /\ filtered_logs[i].original_event = Strip(kept[i].line, Whitespace)

\* One item more than the capacity was appended to each buffer.
C8_Witness ==
    /\ Len(raw_history) = LogBufferMaxsize + 1
    /\ Len(log_buffer) = LogBufferMaxsize
    /\ Len(det_history) = FilteredLogsMax + 1
    /\ Len(filtered_logs) = FilteredLogsMax


(***************************************************************************)
(* The service: the control operations as the API routes call them, the    *)
(* watchdog and reader threads, the subprocesses dying, the configuration  *)
(* being changed, and time passing.  A control operation and a pass of the *)
(* watchdog loop each run to their end before the next one starts.         *)
(***************************************************************************)
\* The world becomes s.
Becomes(s) ==
    /\ InBounds(s)
    /\ adb_handler' = s.h
    /\ watcher' = s.w
    /\ procs' = s.procs
    /\ readers' = s.readers
    /\ dogs' = s.dogs

\* A control operation op ended in the outcome r.  repeated: it follows a
\* call of the same operation with nothing in between.
Called(op, r) ==
    /\ Becomes(r.s)
    /\ svc_call' = [op |-> op, ret |-> r.ret,
                    pre_running |-> watcher.is_running,
                    spawned |-> Len(r.s.procs) - Len(procs),
                    started |-> Len(r.s.readers) - Len(readers),
                    trace |-> r.trace,
                    repeated |-> svc_call.op = op,
                    watchdogs |-> Len(r.s.dogs) - Len(dogs),
                    watched |-> r.watched]
    /\ wd_call' = NoWdCall
    /\ UNCHANGED <<now, config, conn_call, fail_streak, conn_fail_streak,
                   logVars, registry, path_call, stopping, stopped_loops>>

InitSvc ==
    /\ now = Epoch
    /\ config \in {Config(enabled, "None", <<>>) : enabled \in BOOLEAN}
    /\ NoCallsYet
    /\ NewPipeline
    /\ path_call = NoPathCall
    /\ NewService("ip", config.enable_watcher)

StartService ==
    \E r \in start_service(World, config, now) : Called("start_service", r)

StopService ==
    \E r \in stop_service(World, config) : Called("stop_service", r)

RestartService ==
    \E r \in restart_service(World, config, now) : Called("restart_service", r)

\* get_watcher_status()
GetWatcherStatus ==
    \E s \in apply_config_changes(World, config, now) :
        Called("get_watcher_status",
               [s |-> s, ret |-> TRUE, trace |-> <<>>, watched |-> "none"])

\* update_config({"general": {"enable_watcher": enabled}}), as the routes
\* /start and /stop do before they call the service: the update replaces the
\* whole "general" section, so the cooldown falls back to its default.
SetEnableWatcher ==
    \E enabled \in BOOLEAN :
        /\ enabled # config.enable_watcher
        /\ config' = [config EXCEPT !.enable_watcher = enabled,
                                    !.event_cooldown = DefaultCooldown]
        /\ svc_call' = NoSvcCall
        /\ wd_call' = NoWdCall
        /\ UNCHANGED <<now, connVars, logVars, registry, path_call, watcher, procs, readers, dogs, stopping,
                   stopped_loops>>

\* A pass of the watchdog loop in one of the live watchdog threads.
WatchdogCycle ==
    \E i \in DOMAIN dogs :
        /\ dogs[i].alive
        /\ \E r \in _run_device_watchdog(World, config, now, i) :
              /\ Becomes(r.s)
              /\ wd_call' = [observed |-> r.observed,
                             failed |-> watcher.monitoring_failed,
                             running |-> watcher.is_running,
                             flag |-> watcher.device_watchdog_running,
                             last |-> dogs[i].last_connected_state,
                             restarts |-> r.restarts,
                             flag_at_restart |-> r.flag_at_restart,
                             ret |-> r.ret]
              /\ svc_call' = NoSvcCall
        /\ UNCHANGED <<now, config, conn_call, fail_streak, conn_fail_streak,
                       logVars, registry, path_call, stopping,
                   stopped_loops>>

\* A reader thread leaves its loop: the loop condition is false (line 309),
\* or readline() returned nothing and poll() is not None (lines 313-317).
\* What a reader does with a line it has read is SpecLog's ReadLine; it
\* changes none of the lifecycle's fields.
ReaderExits ==
    \E i \in DOMAIN readers :
        /\ readers[i].alive
        /\ \/ ~watcher.is_running
           \/ watcher.process = 0
           \/ watcher.process # 0 /\ procs[watcher.process] = "exited"
        /\ readers' = [readers EXCEPT ![i].alive = FALSE]
        /\ svc_call' = NoSvcCall
        /\ wd_call' = NoWdCall
        /\ UNCHANGED <<now, config, connVars, logVars, registry, path_call, watcher, procs, dogs, stopping,
                   stopped_loops>>

\* A log-stream subprocess ends by itself (the device went away).
LogcatExits ==
    \E p \in DOMAIN procs :
        /\ procs[p] = "running"
        /\ procs' = [procs EXCEPT ![p] = "exited"]
        /\ svc_call' = NoSvcCall
        /\ wd_call' = NoWdCall
        /\ UNCHANGED <<now, config, connVars, logVars, registry, path_call, watcher, readers, dogs, stopping,
                   stopped_loops>>

\* Time passes, long enough for the watchdog to have slept and for the
\* handler to probe again.
Pause ==
    /\ now + RecheckAfter + 1 <= Epoch + MaxSvcTime
    /\ now' = now + RecheckAfter + 1
    /\ svc_call' = NoSvcCall
    /\ wd_call' = NoWdCall
    /\ UNCHANGED <<config, connVars, logVars, registry, path_call, watcher, procs, readers, dogs, stopping,
                   stopped_loops>>

NextSvc ==
    \/ StartService
    \/ StopService
    \/ RestartService
    \/ GetWatcherStatus
    \/ SetEnableWatcher
    \/ WatchdogCycle
    \/ ReaderExits
    \/ LogcatExits
    \/ KeepAliveExits
    \/ Pause

SpecSvc == InitSvc /\ [][NextSvc]_vars

(***************************************************************************)
(* C9.  Auto-recovery: a pass of the watchdog loop that sees the device    *)
(* go from disconnected to connected, with monitoring enabled and          *)
(* monitoring_failed set, calls restart_service() exactly once, and has    *)
(* cleared the failure flag when it makes the call; the flag is clear      *)
(* after the pass exactly when that restart succeeded.                     *)
(***************************************************************************)
C9_AutoRecovery ==
    (wd_call.observed = "up" /\ wd_call.failed /\ config.enable_watcher)
        => /\ wd_call.restarts = 1
           /\ ~wd_call.flag_at_restart
           /\ watcher.monitoring_failed = ~wd_call.ret

C9_Witness ==
    /\ wd_call.observed = "up"
    /\ wd_call.failed
    /\ wd_call.running
    /\ config.enable_watcher
    /\ wd_call.restarts = 1
    /\ wd_call.ret
    /\ ~watcher.monitoring_failed
    /\ watcher.is_running

LastOp(op) == svc_call.op = op

\* The last control operation made the call, with the result ret.
Made(call, ret) ==
    \E i \in DOMAIN svc_call.trace : svc_call.trace[i] = Step(call, ret)

\* The last control operation made the call at all.
MadeCall(call) == Made(call, TRUE) \/ Made(call, FALSE)

\* The last control operation created nothing.
NothingSpawned == svc_call.spawned = 0 /\ svc_call.started = 0

(***************************************************************************)
(* C11.  start_service() returns false, having spawned no log-stream       *)
(* subprocess and started no reader thread, when monitoring is disabled,   *)
(* when the non-forced and the forced connection attempt both fail, and    *)
(* when the log-stream spawn fails; in the last two cases monitoring_failed *)
(* is true on return.  The forced attempt is made only after the           *)
(* non-forced one has failed.                                              *)
(***************************************************************************)
C11_StartFails ==
    LastOp("start_service") =>
        /\ ~config.enable_watcher
              => ~svc_call.ret /\ NothingSpawned
        /\ (Made("ensure_connection", FALSE)
              /\ Made("ensure_connection_force", FALSE))
              => ~svc_call.ret /\ NothingSpawned /\ watcher.monitoring_failed
        /\ Made("start_logcat_process", FALSE)
              => ~svc_call.ret /\ NothingSpawned /\ watcher.monitoring_failed
        /\ MadeCall("ensure_connection_force")
              => /\ svc_call.trace[1] = Step("ensure_connection", FALSE)
                 /\ svc_call.trace[2].call = "ensure_connection_force"
                 /\ \A i \in DOMAIN svc_call.trace :
                       svc_call.trace[i].call = "ensure_connection_force"
                           => i = 2

\* The forced attempt connected and the spawn then failed.
C11_Witness ==
    /\ LastOp("start_service")
    /\ config.enable_watcher
    /\ svc_call.trace = <<Step("ensure_connection", FALSE),
                          Step("ensure_connection_force", TRUE),
                          Step("start_logcat_process", FALSE)>>
    /\ ~svc_call.ret
    /\ NothingSpawned
    /\ watcher.monitoring_failed
    /\ ~watcher.is_running

(***************************************************************************)
(* C12.  stop_service() always returns true; a second call right after a   *)
(* first leaves is_running, process, monitoring_failed and the two         *)
(* subprocess handles as the first left them; and it stops the device      *)
(* watchdog (clears the loop flag and drops the thread reference) when     *)
(* monitoring is disabled, and leaves the watchdog alone when it is        *)
(* enabled.                                                                *)
(***************************************************************************)
\* What idempotence is about.
StopFields ==
    <<watcher.is_running, watcher.process, watcher.monitoring_failed,
      adb_handler.logcat_process, adb_handler.persistent_process>>

WatchdogFields ==
    <<watcher.device_watchdog_running, watcher.device_watchdog_thread, dogs>>

C12_Stop ==
    /\ [](LastOp("stop_service") =>
            /\ svc_call.ret
            /\ ~watcher.is_running
            /\ ~config.enable_watcher
                  => /\ ~watcher.device_watchdog_running
                     /\ watcher.device_watchdog_thread = 0)
    /\ [][(svc_call'.op = "stop_service" /\ config.enable_watcher)
             => WatchdogFields' = WatchdogFields]_vars
    /\ [][(svc_call'.op = "stop_service" /\ svc_call.op = "stop_service")
             => StopFields' = StopFields]_vars

\* A second stop right after the stop of a running monitor, monitoring
\* disabled: the watchdog thread is still alive, its loop flag is cleared.
C12_Witness ==
    /\ LastOp("stop_service")
    /\ svc_call.repeated
    /\ svc_call.ret
    /\ ~config.enable_watcher
    /\ ~watcher.device_watchdog_running
    /\ \E i \in DOMAIN dogs : dogs[i].alive
    /\ \E p \in DOMAIN procs : procs[p] = "exited"

(***************************************************************************)
(* C13.  restart_service() calls stop_service(), then                      *)
(* is_device_connected(), then force_connect() only when the device was    *)
(* found not connected, then start_service().  When the reconnect fails it *)
(* returns false with monitoring_failed set and start_service() is not     *)
(* called (nothing is spawned, nothing runs); when start_service() fails   *)
(* it returns false with monitoring_failed set.                            *)
(***************************************************************************)
RestartTraces ==
    {<<Step("stop_service", TRUE), Step("is_device_connected", TRUE),
       Step("start_service", r)>> : r \in BOOLEAN}
    \cup {<<Step("stop_service", TRUE), Step("is_device_connected", FALSE),
            Step("force_connect", TRUE), Step("start_service", r)>>
           : r \in BOOLEAN}
    \cup {<<Step("stop_service", TRUE), Step("is_device_connected", FALSE),
            Step("force_connect", FALSE)>>}

C13_RestartOrder ==
    LastOp("restart_service") =>
        /\ svc_call.trace \in RestartTraces
        /\ Made("force_connect", FALSE)
              => /\ ~svc_call.ret
                 /\ watcher.monitoring_failed
                 /\ ~MadeCall("start_service")
                 /\ NothingSpawned
                 /\ ~watcher.is_running
        /\ Made("start_service", FALSE)
              => ~svc_call.ret /\ watcher.monitoring_failed
        /\ svc_call.ret <=> Made("start_service", TRUE)

\* A restart of a running monitor that found the device gone, reconnected
\* it, and then failed to start the log stream.
C13_Witness ==
    /\ LastOp("restart_service")
    /\ svc_call.pre_running
    /\ svc_call.trace =
          <<Step("stop_service", TRUE), Step("is_device_connected", FALSE),
            Step("force_connect", TRUE), Step("start_service", FALSE)>>
    /\ ~svc_call.ret
    /\ watcher.monitoring_failed
    /\ config.enable_watcher

(***************************************************************************)
(* C14.  As stated: after stop_service() returns the service holds neither *)
(* a log-stream subprocess handle nor a keep-alive subprocess handle.      *)
(* stop_service() drops the log-stream handle on every path, termination   *)
(* errors included, but it never touches the keep-alive handle that        *)
(* ensure_connection() stored during start.                                *)
(***************************************************************************)
C14_AsStated ==
    LastOp("stop_service") =>
        /\ watcher.process = 0
        /\ adb_handler.logcat_process = 0
        /\ adb_handler.persistent_process = "None"

\* The half that the code keeps: no log-stream handle is left.
C14_LogStreamReleased ==
    LastOp("stop_service") =>
        watcher.process = 0 /\ adb_handler.logcat_process = 0

(***************************************************************************)
(* C15.  As stated: when the log-stream subprocess fails to spawn, or      *)
(* exits by itself while the reader loop is running, the service ends up   *)
(* with monitoring_failed = true and is_running = false.  The spawn half   *)
(* holds; on an unexpected exit the reader loop only breaks.               *)
(***************************************************************************)
\* The reader thread of the current monitor has left its loop because the
\* subprocess it was reading from ended by itself.
ReaderSawExit ==
    /\ watcher.log_thread # 0
    /\ ~readers[watcher.log_thread].alive
    /\ watcher.process # 0
    /\ procs[watcher.process] = "exited"

FailedAndStopped == watcher.monitoring_failed /\ ~watcher.is_running

C15_AsStated ==
    /\ (LastOp("start_service") /\ Made("start_logcat_process", FALSE))
          => FailedAndStopped
    /\ ReaderSawExit => FailedAndStopped

\* The half that the code keeps: a failed spawn.
C15_SpawnFailure ==
    (LastOp("start_service") /\ Made("start_logcat_process", FALSE))
        => FailedAndStopped

(***************************************************************************)
(* Log access: get_raw_logs and get_event_logs (adbwatcher.py:234-249).    *)
(***************************************************************************)
\* Python's lst[-n:] for n >= 0: -0 is 0, so lst[-0:] is the whole list; a
\* start before the beginning is clamped to the beginning.
SliceFromMinus(lst, n) ==
    IF n = 0 \/ n >= Len(lst) THEN lst
    ELSE SubSeq(lst, Len(lst) - n + 1, Len(lst))

\* get_raw_logs(count): a copy of the queue, then list(copy)[-num_logs:].
get_raw_logs(buf, count) ==
    LET temp_queue == buf
        num_logs == Min(count, Len(temp_queue))
    IN  SliceFromMinus(temp_queue, num_logs)

\* get_event_logs(count)
get_event_logs(logs, count) ==
    IF logs # <<>> THEN SliceFromMinus(logs, count) ELSE <<>>

Counts == 0..MaxCount

GetRawLogs ==
    /\ \E count \in Counts :
          get_call' = [op |-> "get_raw_logs", count |-> count,
                       ret |-> get_raw_logs(log_buffer, count)]
    /\ entry_call' = NoEntry
    /\ UNCHANGED <<now, config, connVars, svcVars, registry, path_call, log_buffer, filtered_logs,
                   last_processed_event, last_event_time, raw_history,
                   det_history, stopping, stopped_loops>>

GetEventLogs ==
    /\ \E count \in Counts :
          get_call' = [op |-> "get_event_logs", count |-> count,
                       ret |-> get_event_logs(filtered_logs, count)]
    /\ entry_call' = NoEntry
    /\ UNCHANGED <<now, config, connVars, svcVars, registry, path_call, log_buffer, filtered_logs,
                   last_processed_event, last_event_time, raw_history,
                   det_history, stopping, stopped_loops>>

\* The reader thread fills the buffers, the API reads them.
NextGet ==
    \/ ReadLine
    \/ GetRawLogs
    \/ GetEventLogs

SpecGet == InitLog /\ [][NextGet]_vars

(***************************************************************************)
(* C16.  As stated: for every count >= 0 both getters return exactly the   *)
(* last min(count, size) elements of their buffer, most recent last, hence *)
(* never more than count elements.  For count = 0 both return the whole    *)
(* buffer.                                                                 *)
(***************************************************************************)
\* The buffer the last getter call read.
GotFrom ==
    IF get_call.op = "get_raw_logs" THEN log_buffer ELSE filtered_logs

C16_AsStated ==
    get_call.op # "none" =>
        /\ get_call.ret = LastN(GotFrom, Min(get_call.count, Len(GotFrom)))
        /\ Len(get_call.ret) <= get_call.count

\* What the code keeps: the claim for every count >= 1.
C16_PositiveCount ==
    (get_call.op # "none" /\ get_call.count >= 1) =>
        /\ get_call.ret = LastN(GotFrom, Min(get_call.count, Len(GotFrom)))
        /\ Len(get_call.ret) <= get_call.count

(***************************************************************************)
(* Concurrent calls of ADBHandler.get_instance (adbhandler.py:26-43), one  *)
(* step per statement.                                                     *)
(***************************************************************************)
\* Thread t calls get_instance(device_id).
GetInstanceCall(t) ==
    /\ registry.pc[t] = "idle"
    /\ registry.calls < MaxCalls
    /\ \E d \in DeviceIds \cup {"None"} :
          registry' = [registry EXCEPT !.pc[t] = "lock",
                                       !.device_id[t] = d,
                                       !.calls = @ + 1]

\* with cls._lock:  device_id = device_id or config.adb_device_id
GetInstanceEnter(t) ==
    /\ registry.pc[t] = "lock"
    /\ LockFree(registry.lock, t)
    /\ registry' = [registry EXCEPT
                       !.lock = t,
                       !.device_id[t] = ResolveDeviceId(@),
                       !.pc[t] = "test"]

\* if device_id not in cls._instances
GetInstanceTest(t) ==
    /\ registry.pc[t] = "test"
    /\ registry' = [registry EXCEPT
                       !.pc[t] =
                           IF registry.instances[registry.device_id[t]] = 0
                           THEN "create" ELSE "return"]

\* cls._instances[device_id] = cls(device_id, _use_registry=True)
GetInstanceCreate(t) ==
    /\ registry.pc[t] = "create"
    /\ registry' = [registry EXCEPT
                       !.created = Append(@, registry.device_id[t]),
                       !.instances[registry.device_id[t]] =
                           Len(registry.created) + 1,
                       !.pc[t] = "return"]

\* return cls._instances[device_id], leaving the with block.
GetInstanceReturn(t) ==
    /\ registry.pc[t] = "return"
    /\ registry' = [registry EXCEPT
                       !.last[t] =
                           [device_id |-> registry.device_id[t],
                            instance |->
                                registry.instances[registry.device_id[t]]],
                       !.lock = IF @ = t THEN 0 ELSE @,
                       !.pc[t] = "idle"]

RegUnchanged == UNCHANGED <<now, config, connVars, logVars, svcVars, path_call, stopping,
                   stopped_loops>>

Call == (\E t \in Threads : GetInstanceCall(t)) /\ RegUnchanged
Enter == (\E t \in Threads : GetInstanceEnter(t)) /\ RegUnchanged
Test == (\E t \in Threads : GetInstanceTest(t)) /\ RegUnchanged
Create == (\E t \in Threads : GetInstanceCreate(t)) /\ RegUnchanged
Return == (\E t \in Threads : GetInstanceReturn(t)) /\ RegUnchanged

InitReg ==
    /\ now = Epoch
    /\ config = DefaultConfig
    /\ NewService("ip", config.enable_watcher)
    /\ NoCallsYet
    /\ NewPipeline
    /\ path_call = NoPathCall

NextReg ==
    \/ Call
    \/ Enter
    \/ Test
    \/ Create
    \/ Return

SpecReg == InitReg /\ [][NextReg]_vars

(***************************************************************************)
(* C17.  Under every interleaving of concurrent get_instance calls at most *)
(* one ADBHandler instance is ever created per device identity, and every  *)
(* call for the same device identity returns that same instance.           *)
(***************************************************************************)
C17_OneInstancePerDevice ==
    /\ \A i, j \in DOMAIN registry.created :
          registry.created[i] = registry.created[j] => i = j
    /\ \A t \in Threads :
          registry.last[t].instance # 0
              => /\ registry.last[t].instance \in DOMAIN registry.created
                 /\ registry.created[registry.last[t].instance]
                       = registry.last[t].device_id
                 /\ registry.instances[registry.last[t].device_id]
                       = registry.last[t].instance

\* One thread created the handler of a new device and returned it, a second
\* holds the lock and has found that instance, a third waits for the lock
\* with the same device.
C17_Witness ==
    \E a, b, c \in Threads :
        /\ a # b /\ b # c /\ a # c
        /\ registry.last[a] = [device_id |-> "d2", instance |-> 2]
        /\ registry.pc[b] = "return" /\ registry.device_id[b] = "d2"
        /\ registry.lock = b
        /\ registry.pc[c] = "lock" /\ registry.device_id[c] = "d2"
        /\ Len(registry.created) = 2

(***************************************************************************)
(* extract_path_from_dat as a function of its arguments                    *)
(* (backend/core/utils.py:49-120).  The dat strings are put together from  *)
(* a scheme, storage markers, a directory, a file part and trailing intent *)
(* parameters; the rule lists are the lists of up to MaxRules different    *)
(* rules.                                                                  *)
(***************************************************************************)
\* "content://x/"
D_content_x ==
    <<"c","o","n","t","e","n","t",":","/","/","x","/">>

\* "file:///"
D_file ==
    <<"f","i","l","e",":","/","/","/">>

\* "movies/"
D_movies ==
    <<"m","o","v","i","e","s","/">>

\* "dcim/"
D_dcim ==
    <<"d","c","i","m","/">>

\* "a.mp4"
F_a ==
    <<"a",".","m","p","4">>

\* "b.mp4"
F_b ==
    <<"b",".","m","p","4">>

\* "#d/a.mp4"
F_hash ==
    <<"#","d","/","a",".","m","p","4">>

\* "a.mp4/"
F_slash ==
    <<"a",".","m","p","4","/">>

\* " typ=video"
P_typ ==
    <<" ","t","y","p","=","v","i","d","e","o">>

\* " flg=1 typ=v"
P_flg_typ ==
    <<" ","f","l","g","=","1"," ","t","y","p","=","v">>

\* "/ext/"
G_ext ==
    <<"/","e","x","t","/">>

\* "/m/"
G_m ==
    <<"/","m","/">>

\* "/d/"
G_d ==
    <<"/","d","/">>

\* "movies/a.mp4"
PathMoviesA ==
    <<"m","o","v","i","e","s","/","a",".","m","p","4">>

\* "movies/b.mp4"
PathMoviesB ==
    <<"m","o","v","i","e","s","/","b",".","m","p","4">>

Schemes == {D_content_x, D_file}
Markers == {<<>>, T_externalstorage, T_emulated, T_emulated \o T_externalstorage}
Files == {F_a, F_b, F_hash, F_slash}
Params == {<<>>, P_typ, P_flg_typ}

DatStrings ==
    {s \o k \o D_movies \o f \o p :
        s \in Schemes, k \in Markers, f \in Files, p \in Params}

Rules ==
    {[source |-> RuleSource, target |-> RuleTarget],
     [source |-> T_externalstorage, target |-> G_ext],
     [source |-> D_movies, target |-> G_m],
     [source |-> D_dcim, target |-> G_d]}

\* The lists of n different rules.
RuleLists(n) ==
    {l \in [1..n -> Rules] : \A i, j \in 1..n : l[i] = l[j] => i = j}

MappingLists == UNION {RuleLists(n) : n \in 0..MaxRules}

\* The call is made with the arguments drawn at Init.
ExtractPath ==
    /\ path_call.op = "none"
    /\ path_call' = [path_call EXCEPT
                        !.op = "extract_path_from_dat",
                        !.ret = extract_path_from_dat(path_call.dat_string,
                                                      path_call.path_mappings)]
    /\ UNCHANGED <<now, config, connVars, logVars, svcVars, registry, stopping,
                   stopped_loops>>

InitPath ==
    /\ now = Epoch
    /\ config = DefaultConfig
    /\ NewService("ip", config.enable_watcher)
    /\ NoCallsYet
    /\ NewPipeline
    /\ path_call \in {[NoPathCall EXCEPT !.dat_string = dat,
                                          !.path_mappings = pm] :
                         dat \in DatStrings, pm \in MappingLists}

NextPath == ExtractPath

SpecPath == InitPath /\ [][NextPath]_vars

\* The cleaned string of the last call, and the rules whose source is in it.
Clean == CutAtParams(path_call.dat_string, TrailingParams)

Matching ==
    {i \in DOMAIN path_call.path_mappings :
        Contains(Clean, path_call.path_mappings[i].source)}

FirstMatching == CHOOSE i \in Matching : \A j \in Matching : i <= j

\* The text after the first occurrence of sub in s, '/' and spaces stripped.
AfterFirst(s, sub) == Strip(From(s, Find(s, sub) + Len(sub)), SlashSpace)

\* The text after the last occurrence of sub in s, '/' and spaces stripped.
AfterLast(s, sub) == Strip(From(s, RFind(s, sub) + Len(sub)), SlashSpace)

Extracted == path_call.op = "extract_path_from_dat"

(***************************************************************************)
(* C18.  When the cleaned dat string contains the source of at least one   *)
(* mapping rule, the result is the target of the first such rule in list   *)
(* order followed by the stripped text after the first occurrence of its   *)
(* source, whatever later rules match and whether or not the string has a  *)
(* '#' or a storage marker.                                                *)
(***************************************************************************)
C18_FirstRuleWins ==
    (Extracted /\ Matching # {}) =>
        path_call.ret =
            path_call.path_mappings[FirstMatching].target
              \o AfterFirst(Clean, path_call.path_mappings[FirstMatching].source)

\* Two rules match, the first in the list is not the one whose source comes
\* first in the string, and the string has a '#' and both storage markers.
C18_Witness ==
    /\ Extracted
    /\ path_call.dat_string =
          D_content_x \o T_emulated \o T_externalstorage \o D_movies
            \o F_hash \o P_typ
    /\ path_call.path_mappings =
          <<[source |-> D_movies, target |-> G_m],
            [source |-> RuleSource, target |-> RuleTarget]>>
    /\ path_call.ret = G_m \o F_hash

(***************************************************************************)
(* C20.  Without a matching rule, on a cleaned string containing           *)
(* "content://", the result is the text after the first '#' if there is    *)
(* one, otherwise the text after "externalstorage/" if present, otherwise  *)
(* the text after "storage/emulated/0/" if present, otherwise the text     *)
(* after the last '/', each with '/' and spaces stripped at both ends;     *)
(* ".../externalstorage/movies/a.mp4" gives "movies/a.mp4" and             *)
(* ".../storage/emulated/0/movies/b.mp4" gives "movies/b.mp4".             *)
(***************************************************************************)
C20_FallbackOrder ==
    (Extracted /\ Matching = {} /\ Contains(Clean, T_content)) =>
        /\ path_call.ret =
              IF Contains(Clean, T_hash) THEN AfterFirst(Clean, T_hash)
              ELSE IF Contains(Clean, T_externalstorage)
              THEN AfterFirst(Clean, T_externalstorage)
              ELSE IF Contains(Clean, T_emulated)
              THEN AfterFirst(Clean, T_emulated)
              ELSE AfterLast(Clean, T_slash)
        /\ path_call.dat_string = D_content_x \o T_externalstorage \o D_movies \o F_a
              => path_call.ret = PathMoviesA
        /\ path_call.dat_string = D_content_x \o T_emulated \o D_movies \o F_b
              => path_call.ret = PathMoviesB

\* Both storage markers in one string, primary emulated storage first, no '#':
\* the text after "externalstorage/" is returned.
C20_Witness ==
    /\ Extracted
    /\ Matching = {}
    /\ path_call.path_mappings # <<>>
    /\ path_call.dat_string =
          D_content_x \o T_emulated \o T_externalstorage \o D_movies
            \o F_b \o P_flg_typ
    /\ path_call.ret = PathMoviesB

(***************************************************************************)
(* C19.  A candidate line whose cleaned dat string contains no rule's      *)
(* source and no "content://" yields no path and is no detected event:     *)
(* nothing is appended to filtered_logs, last_processed_event and          *)
(* last_event_time keep their values, nothing is dispatched, and the raw   *)
(* line is appended to the raw buffer all the same.                        *)
(***************************************************************************)
\* The text parse_video_path hands to extract_path_from_dat, cleaned.
CleanDatOf(line) ==
    LET dat_part == From(line, Find(line, T_dat))
        space_after_dat == Find(dat_part, T_sp_cmp)
    IN  CutAtParams(IF space_after_dat # 0
                    THEN Before(dat_part, space_after_dat) ELSE dat_part,
                    TrailingParams)

\* A candidate line with a dat string that no rule and no marker recognises.
Unrecognized(line) ==
    /\ Contains(line, T_START)
    /\ Contains(line, T_cmp)
    /\ Contains(line, T_dat)
    /\ \A i \in DOMAIN config.path_mappings :
          ~Contains(CleanDatOf(line), config.path_mappings[i].source)
    /\ ~Contains(CleanDatOf(line), T_content)

C19_NoPathNoEvent ==
    /\ [](Unrecognized(entry_call.line) =>
            /\ entry_call.video_path = "None"
            /\ entry_call.stores = 0
            /\ entry_call.posts = 0
            /\ ~entry_call.raised
            /\ Last(log_buffer) = entry_call.line
            /\ Last(raw_history) = entry_call.line)
    /\ [][(raw_history' # raw_history /\ Unrecognized(entry_call'.line))
             => /\ filtered_logs' = filtered_logs
                /\ last_processed_event' = last_processed_event
                /\ last_event_time' = last_event_time
                /\ det_history' = det_history]_vars

\* The unrecognised line arrives after an event was detected, with a rule
\* and an endpoint configured.
C19_Witness ==
    /\ entry_call.line = LineFile
    /\ Unrecognized(entry_call.line)
    /\ entry_call.video_path = "None"
    /\ config.path_mappings # <<>>
    /\ config.notification_endpoint # "None"
    /\ filtered_logs # <<>>
    /\ last_processed_event # "None"
    /\ Len(raw_history) >= 2

(***************************************************************************)
(* C21.  A non-forced ensure_connection call made while                    *)
(* now - last_connection_attempt < connection_backoff returns the cached   *)
(* connected flag and changes nothing: no field of the handler changes, no *)
(* probe is made, no subprocess is terminated or spawned.                  *)
(***************************************************************************)
RateLimited ==
    now - adb_handler.last_connection_attempt < adb_handler.connection_backoff

PlainEnsure(call) == call.op = "ensure_connection" /\ ~call.force

C21_RateLimited ==
    [][(PlainEnsure(conn_call') /\ RateLimited)
         => /\ conn_call'.ret = adb_handler.connected
            /\ adb_handler' = adb_handler
            /\ conn_call'.probed = "none"
            /\ ~conn_call'.terminated
            /\ ~conn_call'.spawned]_vars

\* A call two seconds or more into a backoff of four seconds or more, after
\* failed attempts: false comes back from the cache.
C21_Witness ==
    /\ PlainEnsure(conn_call)
    /\ conn_call.path = "backoff"
    /\ ~conn_call.ret
    /\ adb_handler.connection_backoff >= 4
    /\ now - adb_handler.last_connection_attempt >= 2
    /\ now - adb_handler.last_connection_attempt
          < adb_handler.connection_backoff

(***************************************************************************)
(* C22.  A non-forced ensure_connection call outside the backoff window,   *)
(* made while connected is true and the keep-alive subprocess is alive,    *)
(* makes the liveness probe.  A good answer returns true with the backoff  *)
(* at 1 and the keep-alive subprocess kept (not terminated, none spawned); *)
(* any other answer goes on to the teardown of the keep-alive subprocess   *)
(* and a reconnection.                                                     *)
(***************************************************************************)
C22_ProbePath ==
    [][(/\ PlainEnsure(conn_call')
        /\ ~RateLimited
        /\ adb_handler.connected
        /\ adb_handler.persistent_process = "running")
         => /\ conn_call'.probed # "none"
            /\ adb_handler'.last_connection_attempt = now
            /\ conn_call'.probed = "ok"
                  => /\ conn_call'.ret
                     /\ conn_call'.path = "probe_ok"
                     /\ adb_handler'.connection_backoff = BackoffBase
                     /\ adb_handler'.persistent_process = "running"
                     /\ adb_handler'.connected
                     /\ ~conn_call'.terminated
                     /\ ~conn_call'.spawned
            /\ conn_call'.probed # "ok"
                  => /\ conn_call'.terminated
                     /\ conn_call'.path \in FailPaths \cup {"connected"}
                     /\ conn_call'.spawned <=> conn_call'.path = "connected"
                     /\ conn_call'.ret <=> conn_call'.path = "connected"
                     /\ ~conn_call'.spawned
                           => /\ adb_handler'.persistent_process = "None"
                              /\ ~adb_handler'.connected]_vars

\* The probe answered; the session is as it was, the attempt time aside.
C22_Witness ==
    /\ PlainEnsure(conn_call)
    /\ conn_call.probed = "ok"
    /\ conn_call.path = "probe_ok"
    /\ conn_call.ret
    /\ adb_handler.persistent_process = "running"
    /\ adb_handler.last_connection_attempt = now
    /\ now > Epoch

(***************************************************************************)
(* C23.  As stated: every write to connected, connection_backoff,          *)
(* last_connection_attempt and the keep-alive handle, from any operation   *)
(* of ADBHandler, is made while the writing thread holds connection_lock.  *)
(* execute_command writes connected = False in its exception handler       *)
(* after the ensure_connection call has released the lock.                 *)
(***************************************************************************)
C23_AsStated == conn_call.unlocked = {}

(***************************************************************************)
(* stop_service() and the reader loop, statement by statement.  The reader *)
(* thread runs _run_logcat_processor (adbwatcher.py:304-332) while an API  *)
(* thread runs stop_service (lines 114-140); neither holds a lock, so      *)
(* their statements interleave freely.                                     *)
(***************************************************************************)
\* The reader thread i moves to the position pc, holding the subprocess on.
ReaderMoves(i, pc, on) ==
    stopping' = [stopping EXCEPT !.at[i] = [pc |-> pc, on |-> on],
                                 !.line = "none"]

\* How a line read from a running subprocess fares: it is processed, the
\* read raises UnicodeDecodeError (line 323), or the read or
\* _process_logcat_entry raises another exception (line 327).
LineOutcome == {"processed", "decode_error", "error"}

\* A mutant of ReaderAfterLine: an exception ends the thread.
ReaderAbortsOnError(outcome) ==
    [alive |-> outcome = "processed", pc |-> "test"]

\* Lines 320-328: where the reader thread goes after the line.
ReaderAfterLine(outcome) == [alive |-> TRUE, pc |-> "test"]

ReaderUnchanged ==
    /\ svc_call' = NoSvcCall
    /\ wd_call' = NoWdCall
    /\ UNCHANGED <<now, config, connVars, logVars, registry, path_call,
                   watcher, procs, dogs, stopped_loops>>

\* Line 309: `while self.is_running and self.process`.
ReaderTest(i) ==
    /\ stopping.at[i].pc = "test"
    /\ IF watcher.is_running /\ watcher.process # 0
       THEN ReaderMoves(i, "readline", 0) /\ UNCHANGED readers
       ELSE /\ readers' = [readers EXCEPT ![i].alive = FALSE]
            /\ UNCHANGED stopping
    /\ ReaderUnchanged

\* Line 312: `self.process.stdout.readline()` loads self.process and enters
\* readline on it; on None the AttributeError is caught at line 327 and the
\* loop goes on.
ReaderReadline(i) ==
    /\ stopping.at[i].pc = "readline"
    /\ IF watcher.process = 0
       THEN stopping' = [stopping EXCEPT !.at[i] = [pc |-> "test", on |-> 0],
                                         !.line = "none",
                                         !.deref_none = TRUE]
       ELSE stopping' = [stopping EXCEPT
                !.at[i] = [pc |-> "reading", on |-> watcher.process],
                !.line = "none",
                !.read_discarded = @ \/ watcher.process \in stopping.discarded]
    /\ UNCHANGED readers
    /\ ReaderUnchanged

\* readline returns: a line of a running subprocess, which is processed
\* (line 321), or the empty string at the end of the output of one that has
\* ended.
ReaderReturns(i) ==
    /\ stopping.at[i].pc = "reading"
    /\ IF procs[stopping.at[i].on] = "running"
       THEN \E outcome \in LineOutcome :
              LET r == ReaderAfterLine(outcome) IN
              /\ stopping' = [stopping EXCEPT
                                 !.at[i] = [pc |-> r.pc, on |-> 0],
                                 !.line = outcome]
              /\ readers' = [readers EXCEPT ![i].alive = r.alive]
       ELSE ReaderMoves(i, "poll", 0) /\ UNCHANGED readers
    /\ ReaderUnchanged

\* Lines 315-318: `self.process.poll()` loads self.process again.
ReaderPoll(i) ==
    /\ stopping.at[i].pc = "poll"
    /\ IF watcher.process = 0
       THEN /\ stopping' = [stopping EXCEPT
                               !.at[i] = [pc |-> "test", on |-> 0],
                               !.line = "none",
                               !.deref_none = TRUE]
            /\ UNCHANGED readers
       ELSE IF procs[watcher.process] = "exited"
       THEN /\ readers' = [readers EXCEPT ![i].alive = FALSE]
            /\ ReaderMoves(i, "test", 0)
       ELSE /\ ReaderMoves(i, "test", 0)
            /\ UNCHANGED readers
    /\ ReaderUnchanged

ReaderStep ==
    \E i \in DOMAIN readers :
        /\ readers[i].alive
        /\ \/ ReaderTest(i)
           \/ ReaderReadline(i)
           \/ ReaderReturns(i)
           \/ ReaderPoll(i)

StopUnchanged ==
    /\ svc_call' = NoSvcCall
    /\ wd_call' = NoWdCall
    /\ UNCHANGED <<now, config, conn_call, fail_streak, conn_fail_streak,
                   logVars, registry, path_call, stopped_loops>>

\* Lines 116-123 of stop_service.
StopBegin ==
    /\ stopping.pc = "none"
    /\ watcher' = [watcher EXCEPT !.is_running = FALSE,
                                  !.monitoring_failed =
                                      IF watcher.is_running THEN FALSE ELSE @]
    /\ stopping' = [stopping EXCEPT !.pc = "stop_logcat_process"]
    /\ UNCHANGED <<adb_handler, procs, readers, dogs, stopped_loops>>
    /\ StopUnchanged

\* Line 126: self.adb_handler.stop_logcat_process().  discarded collects the
\* subprocesses it terminated and whose handle it dropped.
StopLogcat ==
    /\ stopping.pc = "stop_logcat_process"
    /\ \E s \in stop_logcat_process(World) :
          /\ Becomes(s)
          /\ stopping' = [stopping EXCEPT
                !.pc = "join",
                !.discarded =
                    @ \cup {p \in DOMAIN procs :
                              /\ p = adb_handler.logcat_process
                              /\ procs[p] = "running"
                              /\ s.procs[p] = "exited"}]
    /\ StopUnchanged

\* A mutant of JoinEnds: join() without a timeout.
JoinWaitsForThread(alive) == ~alive

\* Whether `if self.log_thread and self.log_thread.is_alive():
\* self.log_thread.join(timeout=2)` comes to an end, the thread being alive
\* or not: the join is skipped, returns when the thread ends, or returns
\* after two seconds.
JoinEnds(alive) == TRUE

\* Lines 129-130: join(timeout=2) returns when the reader thread has ended,
\* or after two seconds with the thread still running.
StopJoin ==
    /\ stopping.pc = "join"
    /\ JoinEnds(Alive(readers, watcher.log_thread))
    /\ stopping' = [stopping EXCEPT !.pc = "release"]
    /\ UNCHANGED <<adb_handler, watcher, procs, readers, dogs, stopped_loops>>
    /\ StopUnchanged

\* Lines 132-140: self.process = None, the watchdog stopped if monitoring
\* is disabled.
StopRelease ==
    /\ stopping.pc = "release"
    /\ LET s == [World EXCEPT !.w.process = 0] IN
       Becomes(IF config.enable_watcher THEN s ELSE stop_device_watchdog(s))
    /\ stopping' = [stopping EXCEPT !.pc = "none"]
    /\ StopUnchanged

\* start_service() called while no stop_service() is under way.
StartWhenIdle ==
    /\ stopping.pc = "none"
    /\ StartService

NextStop ==
    \/ StartWhenIdle
    \/ StopBegin
    \/ StopLogcat
    \/ StopJoin
    \/ StopRelease
    \/ ReaderStep
    \/ LogcatExits

SpecStop == InitSvc /\ [][NextStop]_vars

(***************************************************************************)
(* C24.  stop_service() joins the reader loop before the log-stream        *)
(* subprocess handle is released, so that under every interleaving of      *)
(* stop_service() with the reader loop the reader never dereferences a     *)
(* handle that is None and never reads from a process that stop has        *)
(* already terminated and discarded.  As stated.                           *)
(***************************************************************************)
C24_AsStated ==
    /\ ~stopping.deref_none
    /\ ~stopping.read_discarded

(***************************************************************************)
(* C25.  In start_service(), whenever a connection attempt is made, a      *)
(* watchdog loop is already running: the watchdog is started, if it was    *)
(* not alive, before the first ensure_connection of that call.  The same   *)
(* holds of the start_service() that restart_service() calls.              *)
(***************************************************************************)
C25_WatchdogFirst ==
    /\ svc_call.watched # "no"
    /\ svc_call.op = "start_service"
          => /\ MadeCall("ensure_connection") <=> svc_call.watched = "yes"
             /\ svc_call.watchdogs = 1 => Watched(World)

\* A start_service() that found no watchdog thread, started one and then
\* made its connection attempts.
C25_Witness ==
    /\ svc_call.op = "start_service"
    /\ svc_call.watchdogs = 1
    /\ svc_call.watched = "yes"
    /\ MadeCall("ensure_connection")
    /\ Alive(dogs, watcher.device_watchdog_thread)

(***************************************************************************)
(* The watchdog threads.  start_device_watchdog() starts a thread that     *)
(* runs _run_device_watchdog; stop_device_watchdog() clears the loop flag  *)
(* and forgets the thread, which is left to end by itself at its next      *)
(* `while self.device_watchdog_running` (adbwatcher.py:169-187, 254-288).  *)
(* Here up to MaxLoops threads are started, each making its passes in its  *)
(* own time (it sleeps connection_check_interval = 30 s between two); the  *)
(* calls follow one another within the handler's 30 s of trust in its      *)
(* last probe, so the clock is left where it is.                           *)
(***************************************************************************)
LoopsRunning == {i \in DOMAIN dogs : dogs[i].alive}

DogBecomes(s) ==
    /\ Len(s.procs) <= MaxProcs
    /\ Len(s.dogs) <= MaxLoops
    /\ adb_handler' = s.h
    /\ watcher' = s.w
    /\ procs' = s.procs
    /\ readers' = s.readers
    /\ dogs' = s.dogs

\* A control operation ended in the outcome r.  If it cleared the loop flag
\* (only stop_device_watchdog does, line 183), the loops running at that
\* moment are remembered.
DogCalled(op, r) ==
    /\ DogBecomes(r.s)
    /\ svc_call' = [op |-> op, ret |-> r.ret,
                    pre_running |-> watcher.is_running,
                    spawned |-> Len(r.s.procs) - Len(procs),
                    started |-> Len(r.s.readers) - Len(readers),
                    trace |-> r.trace,
                    repeated |-> svc_call.op = op,
                    watchdogs |-> Len(r.s.dogs) - Len(dogs),
                    watched |-> r.watched]
    /\ wd_call' = NoWdCall
    /\ stopped_loops' =
          IF watcher.device_watchdog_running /\ ~r.s.w.device_watchdog_running
          THEN stopped_loops \cup LoopsRunning
          ELSE stopped_loops
    /\ UNCHANGED <<now, config, conn_call, fail_streak, conn_fail_streak,
                   logVars, registry, path_call, stopping>>

DogStartService ==
    \E r \in start_service(World, config, now) : DogCalled("start_service", r)

DogStopService ==
    \E r \in stop_service(World, config) : DogCalled("stop_service", r)

DogGetWatcherStatus ==
    \E s \in apply_config_changes(World, config, now) :
        DogCalled("get_watcher_status",
                  [s |-> s, ret |-> TRUE, trace |-> <<>>, watched |-> "none"])

\* A pass of the loop of the watchdog thread i.
DogCycle(i) ==
    /\ i \in LoopsRunning
    /\ \E r \in _run_device_watchdog(World, config, now, i) :
          /\ DogBecomes(r.s)
          /\ wd_call' = [observed |-> r.observed,
                         failed |-> watcher.monitoring_failed,
                         running |-> watcher.is_running,
                         flag |-> watcher.device_watchdog_running,
                         last |-> dogs[i].last_connected_state,
                         restarts |-> r.restarts,
                         flag_at_restart |-> r.flag_at_restart,
                         ret |-> r.ret]
          /\ svc_call' = NoSvcCall
    /\ UNCHANGED <<now, config, conn_call, fail_streak, conn_fail_streak,
                   logVars, registry, path_call, stopping, stopped_loops>>

DogCycles == \E i \in 1..MaxLoops : DogCycle(i)

NextDog ==
    \/ DogStartService
    \/ DogStopService
    \/ DogGetWatcherStatus
    \/ SetEnableWatcher
    \/ DogCycles

SpecDog == InitSvc /\ [][NextDog]_vars

\* Every watchdog thread is scheduled: it is a thread of its own that wakes
\* from time.sleep (line 283) and makes its next pass.
SpecDogFair ==
    /\ InitSvc
    /\ [][NextDog]_vars
    /\ \A i \in 1..MaxLoops : WF_vars(DogCycle(i))

(***************************************************************************)
(* C26.  At most one watchdog loop is active at any time, under every      *)
(* sequence of start_service / stop_service / status calls and the         *)
(* start_device_watchdog / stop_device_watchdog calls they make, a stop    *)
(* followed by a start while the old loop is in its sleep included.  As    *)
(* stated.                                                                 *)
(***************************************************************************)
C26_AsStated == Cardinality(LoopsRunning) <= 1

(***************************************************************************)
(* C27.  Once stop_device_watchdog() has cleared the loop flag, the        *)
(* watchdog loop that was running at that moment eventually exits, every   *)
(* thread being scheduled, whatever is called afterwards.  As stated.      *)
(***************************************************************************)
C27_AsStated ==
    \A i \in 1..MaxLoops :
        (i \in stopped_loops) ~> (i \in DOMAIN dogs /\ ~dogs[i].alive)

(***************************************************************************)
(* C28.  A pass of the watchdog loop that finds monitoring disabled in the *)
(* configuration it has just read clears the loop flag and leaves the loop *)
(* in that pass: it does not ask the handler, does not change              *)
(* device_connected and does not call restart_service(); the thread makes  *)
(* no further pass (a thread that has ended stays ended).                  *)
(***************************************************************************)
C28_DisabledExits ==
    /\ [][(/\ wd_call'.observed # "none"
           /\ watcher.device_watchdog_running
           /\ ~config.enable_watcher)
            => /\ wd_call'.observed = "exit"
               /\ wd_call'.restarts = 0
               /\ ~watcher'.device_watchdog_running
               /\ watcher'.device_connected = watcher.device_connected
               /\ adb_handler' = adb_handler
               /\ procs' = procs
               /\ readers' = readers
               /\ Cardinality(LoopsRunning') = Cardinality(LoopsRunning) - 1]_vars
    /\ [][\A i \in DOMAIN dogs : ~dogs[i].alive => dogs'[i] = dogs[i]]_vars

\* A loop that found its flag set and monitoring disabled, and ended.
C28_Witness ==
    /\ wd_call.observed = "exit"
    /\ wd_call.flag
    /\ ~config.enable_watcher
    /\ ~watcher.device_watchdog_running
    /\ dogs # <<>>
    /\ LoopsRunning = {}

(***************************************************************************)
(* C29.  The watchdog calls restart_service() only in a pass that sees the *)
(* device go from disconnected to connected with monitoring enabled and    *)
(* (monitoring_failed or not is_running).  A pass that sees it go from     *)
(* connected to disconnected, or sees no change, updates device_connected  *)
(* and nothing else of the watcher: is_running, monitoring_failed, the     *)
(* log-stream handle and the reader threads are untouched.                 *)
(***************************************************************************)
C29_RestartOnlyOnUp ==
    [][wd_call'.observed # "none"
        => /\ wd_call'.restarts > 0
                => /\ wd_call'.observed = "up"
                   /\ config.enable_watcher
                   /\ watcher.monitoring_failed \/ ~watcher.is_running
           /\ wd_call'.observed \in {"down", "same"}
                => /\ wd_call'.restarts = 0
                   /\ watcher' =
                        [watcher EXCEPT !.device_connected =
                            wd_call'.observed = "same" /\ wd_call'.last]
                   /\ adb_handler'.logcat_process = adb_handler.logcat_process
                   /\ adb_handler'.is_monitoring = adb_handler.is_monitoring
                   /\ procs' = procs
                   /\ readers' = readers]_vars

\* A pass that saw the device go away while the monitor was running: the
\* monitor is still marked running, with its log stream and reader.
C29_Witness ==
    /\ wd_call.observed = "down"
    /\ wd_call.last
    /\ wd_call.running
    /\ wd_call.restarts = 0
    /\ ~watcher.device_connected
    /\ watcher.is_running
    /\ watcher.process # 0
    /\ Alive(readers, watcher.log_thread)

(***************************************************************************)
(* C30.  The dedup state: a detection judged duplicate leaves              *)
(* last_processed_event and last_event_time as they were; a detection      *)
(* judged new sets last_processed_event to its path and last_event_time to *)
(* the current time, with or without a notification endpoint.  The state   *)
(* so holds the most recent non-duplicate path only, and the paths P, Q, P *)
(* detected inside one cooldown window are three non-duplicate events.     *)
(***************************************************************************)
C30_DedupState ==
    /\ [][(raw_history' # raw_history /\ Truthy(entry_call'.video_path))
            => IF entry_call'.is_duplicate
               THEN /\ last_processed_event' = last_processed_event
                    /\ last_event_time' = last_event_time
               ELSE /\ entry_call'.video_path = last_processed_event'
                    /\ last_event_time' = now]_vars
    /\ [](\A i \in 1..(Len(det_history) - 2) :
            (/\ ~det_history[i].dup
             /\ det_history[i + 2].path = det_history[i].path
             /\ det_history[i + 1].path # det_history[i].path
             /\ det_history[i + 2].at - det_history[i].at < config.event_cooldown)
              => ~det_history[i + 1].dup /\ ~det_history[i + 2].dup)

\* P, Q, P detected within the cooldown, with an endpoint configured: three
\* events, none a duplicate, and the state holds P.
C30_Witness ==
    /\ Len(det_history) = 3
    /\ det_history[3].path = det_history[1].path
    /\ det_history[2].path # det_history[1].path
    /\ det_history[3].at > det_history[1].at
    /\ det_history[3].at - det_history[1].at < config.event_cooldown
    /\ \A i \in 1..3 : ~det_history[i].dup
    /\ det_history[1].path = last_processed_event
    /\ last_event_time = det_history[3].at
    /\ config.notification_endpoint # "None"

(***************************************************************************)
(* C31.  ADBHandler.stop_logcat_process() leaves logcat_process = None and *)
(* is_monitoring = False on every path: the subprocess ended on terminate, *)
(* the wait timed out and it was killed, terminate and kill both failed,   *)
(* and no subprocess was held at all.                                      *)
(***************************************************************************)
C31_HandleCleared ==
    [][(stopping.pc = "stop_logcat_process" /\ stopping'.pc = "join")
        => /\ adb_handler'.logcat_process = 0
           /\ ~adb_handler'.is_monitoring]_vars

\* stop_logcat_process() has returned although terminate and kill both
\* failed: the subprocess it held runs on, the handle is gone.
C31_Witness ==
    /\ stopping.pc = "join"
    /\ adb_handler.logcat_process = 0
    /\ ~adb_handler.is_monitoring
    /\ watcher.process # 0
    /\ procs[watcher.process] = "running"

(***************************************************************************)
(* C32.  The reader loop is never aborted by a failure on a single line:   *)
(* an exception raised while reading or processing a line is absorbed and  *)
(* the loop goes on to its next test.  A reader thread ends only at its    *)
(* loop test with is_running false or the handle None, or at its poll      *)
(* after an empty read with the subprocess exited.                         *)
(***************************************************************************)
C32_LoopSurvivesLine ==
    [][\A i \in DOMAIN readers :
         /\ (readers[i].alive /\ ~readers'[i].alive)
               => \/ /\ stopping.at[i].pc = "test"
                     /\ ~watcher.is_running \/ watcher.process = 0
                  \/ /\ stopping.at[i].pc = "poll"
                     /\ watcher.process # 0
                     /\ procs[watcher.process] = "exited"
         /\ (/\ readers[i].alive
             /\ stopping.at[i].pc = "reading"
             /\ stopping'.at[i].pc # "reading"
             /\ procs[stopping.at[i].on] = "running")
               => /\ readers'[i].alive
                  /\ stopping'.at[i].pc = "test"
                  /\ stopping'.line \in LineOutcome]_vars

\* A line has just raised in the running service; its reader is back at the
\* loop test, alive.
C32_Witness ==
    /\ stopping.line = "error"
    /\ watcher.is_running
    /\ Alive(readers, watcher.log_thread)
    /\ stopping.at[watcher.log_thread].pc = "test"
    /\ procs[watcher.process] = "running"

\* stop_service() runs in a thread of its own (an API worker or the
\* watchdog), which is scheduled: each of its statements that can end does
\* end.  Nothing is assumed of the reader threads and the subprocesses.
SpecStopFair ==
    /\ InitSvc
    /\ [][NextStop]_vars
    /\ WF_vars(StopLogcat)
    /\ WF_vars(StopJoin)
    /\ WF_vars(StopRelease)

(***************************************************************************)
(* C33.  stop_service() always terminates: the wait for the subprocess and *)
(* the join of the reader thread are bounded, so a call that has begun     *)
(* returns, even if the log-stream subprocess ignores terminate or the     *)
(* reader loop never exits.                                                *)
(***************************************************************************)
C33_StopReturns == (stopping.pc # "none") ~> (stopping.pc = "none")

\* stop_service() has returned while the subprocess it could not end runs
\* on and a reader thread is still inside readline on it.
C33_Witness ==
    /\ stopping.pc = "none"
    /\ ~watcher.is_running
    /\ watcher.process = 0
    /\ adb_handler.logcat_process = 0
    /\ \E i \in DOMAIN readers :
          /\ readers[i].alive
          /\ stopping.at[i].pc = "reading"
          /\ procs[stopping.at[i].on] = "running"

(***************************************************************************)
(* C34.  At most one log-stream subprocess and at most one reader loop are *)
(* live at any time, under every interleaving of start_service(),          *)
(* restart_service() (from the API and from the watchdog) and              *)
(* stop_service(); and no log-stream subprocess is left running without    *)
(* the handler holding its handle.  As stated.                             *)
(***************************************************************************)
LiveProcs == {p \in DOMAIN procs : procs[p] = "running"}
LiveReaders == {i \in DOMAIN readers : readers[i].alive}

C34_AsStated ==
    /\ Cardinality(LiveProcs) <= 1
    /\ Cardinality(LiveReaders) <= 1
    /\ \A p \in LiveProcs : adb_handler.logcat_process = p

(***************************************************************************)
(* The service left to itself: after start_service() nothing is called     *)
(* from outside, monitoring stays enabled, the subprocesses may end, the    *)
(* reader thread follows, time passes, and the watchdog thread makes its   *)
(* passes.                                                                 *)
(***************************************************************************)
NextRecover ==
    \/ StartService
    \/ WatchdogCycle
    \/ ReaderExits
    \/ LogcatExits
    \/ KeepAliveExits
    \/ Pause

\* The watchdog thread is scheduled: it wakes from its sleep (line 283) and
\* makes its next pass.
SpecRecover ==
    /\ InitSvc
    /\ [][NextRecover]_vars
    /\ WF_vars(WatchdogCycle)

(***************************************************************************)
(* C35.  Recovery after stream loss: the log-stream subprocess has exited  *)
(* while is_running is true and its reader has left the loop; once the     *)
(* watchdog sees the device connected again, with monitoring enabled, a    *)
(* new log-stream subprocess and reader loop are eventually started, no    *)
(* start or restart being called from outside.  As stated.                 *)
(***************************************************************************)
Monitoring ==
    /\ watcher.process # 0
    /\ procs[watcher.process] = "running"
    /\ Alive(readers, watcher.log_thread)

C35_AsStated ==
    (/\ ReaderSawExit
     /\ watcher.is_running
     /\ config.enable_watcher
     /\ wd_call.observed = "up") ~> Monitoring

(***************************************************************************)
(* C36.  In every state in which no control operation is in progress,      *)
(* is_running and monitoring_failed are not both true: the status never    *)
(* reports a pipeline that is running and failed at the same time.  As     *)
(* stated.                                                                 *)
(***************************************************************************)
C36_AsStated == ~(watcher.is_running /\ watcher.monitoring_failed)

(***************************************************************************)
(* C37.  Whenever connection_lock is not held, connected = True implies    *)
(* that a keep-alive subprocess handle is held (persistent_process is not  *)
(* None); and every failed connection attempt leaves persistent_process =  *)
(* None.                                                                   *)
(***************************************************************************)
C37_ConnectedHoldsHandle ==
    /\ adb_handler.connected => adb_handler.persistent_process # "None"
    /\ conn_call.path \in FailPaths
          => /\ adb_handler.persistent_process = "None"
             /\ ~adb_handler.connected
             /\ ~conn_call.ret

\* An attempt that found a keep-alive subprocess, terminated it and failed
\* at `adb connect`.
C37_Witness ==
    /\ conn_call.path \in ConnectFailPaths
    /\ conn_call.terminated
    /\ adb_handler.persistent_process = "None"
    /\ ~adb_handler.connected

(***************************************************************************)
(* C38.  is_device_connected() returns true only if, at the moment it      *)
(* returns, a keep-alive subprocess handle is held and that subprocess had *)
(* not exited when the call inspected it; it never returns true from the   *)
(* cached flag when the keep-alive subprocess has already died.            *)
(* The code does not keep this: a call that finds the subprocess dead      *)
(* falls to ensure_connection, whose rate limit (lines 105-107) answers    *)
(* with the cached flag.                                                   *)
(***************************************************************************)
C38_AsStated ==
    (conn_call.op = "is_device_connected" /\ conn_call.ret)
        => adb_handler.persistent_process = "running"

(***************************************************************************)
(* A change of the configured device (route /config, api.py:136-151):      *)
(* update_config rewrites the configuration object in place.  The restart  *)
(* the route schedules when monitoring is running is a background task,    *)
(* the action RestartService.                                              *)
(***************************************************************************)
SetDeviceId ==
    \E id \in ConfiguredDevices :
        /\ id # config.adb_device_id
        /\ config' = [config EXCEPT !.adb_device_id = id]
        /\ svc_call' = NoSvcCall
        /\ wd_call' = NoWdCall
        /\ UNCHANGED <<now, connVars, logVars, registry, path_call, watcher,
                       procs, readers, dogs, stopping, stopped_loops>>

NextDevice ==
    \/ StartService
    \/ StopService
    \/ RestartService
    \/ GetWatcherStatus
    \/ SetDeviceId
    \/ ReaderExits
    \/ LogcatExits

SpecDevice == InitSvc /\ [][NextDevice]_vars

(***************************************************************************)
(* C39.  When apply_config_changes() meets a changed device identity while *)
(* monitoring is running, the log-stream subprocess and the reader loop of *)
(* the old device are terminated before monitoring of the new device       *)
(* starts: afterwards no log-stream subprocess of the old device's         *)
(* ADBHandler is alive and no reader processes lines of the old device.    *)
(* Stated of the state get_watcher_status() leaves when the configuration  *)
(* names another device than the handler the watcher uses.  The code does  *)
(* not keep this: the comparison of line 212 never sees a difference, and  *)
(* the handler of the old device goes on monitoring.                       *)
(***************************************************************************)
C39_AsStated ==
    (/\ svc_call.op = "get_watcher_status"
     /\ adb_handler.device_ip # config.adb_device_id)
        => /\ ~(/\ adb_handler.logcat_process # 0
                /\ procs[adb_handler.logcat_process] = "running")
           /\ ~Alive(readers, watcher.log_thread)

(***************************************************************************)
(* C40.  stop_service() clears monitoring_failed if and only if monitoring *)
(* was running (is_running true) when it was called; called on a service   *)
(* that is not running it leaves monitoring_failed as it was, so a failure *)
(* recorded by a failed start or restart stays visible after a stop.       *)
(***************************************************************************)
C40_ClearsOnlyWhenRunning ==
    [][svc_call'.op = "stop_service"
          => watcher'.monitoring_failed =
                 IF watcher.is_running THEN FALSE
                 ELSE watcher.monitoring_failed]_vars

\* A stop of a service that was not running, the failure of an earlier
\* start still recorded.
C40_Witness ==
    /\ svc_call.op = "stop_service"
    /\ ~svc_call.pre_running
    /\ watcher.monitoring_failed
    /\ ~watcher.is_running

=============================================================================
